---- MODULE Spec2Model ----
(***************************************************************************)
(* A model of the vectorized execution core of pixie's carnot engine:      *)
(*   - the Source ExecNode lifecycle over an append-only Table             *)
(*     (specification Spec, and FairSpec for its liveness properties);     *)
(*   - the type-erased ColumnWrapper and its Arrow conversion              *)
(*     (specification ColSpec), and sequences of Column operations        *)
(*     (specification ColOpsSpec);                                         *)
(*   - the metadata UDFs over a metadata snapshot (UdfSpec) and the UPID   *)
(*     codec (UpidSpec);                                                   *)
(*   - the CSV ingestion of the offline harness (CsvSpec) and the header   *)
(*     of its file (HdrSpec);                                              *)
(*   - SemVer: GetSemVer (SemVerSpec) and operator< (LessSpec).            *)
(***************************************************************************)
EXTENDS Integers, Sequences, FiniteSets, TLC

VARIABLES
    \* ---- Table / table store (exec/table.h, used by part_003) ----
    table,            \* the Table's stored RowBatches, in storage order
    table_store,      \* the names registered with AddTable
    \* ---- SourceNode (part_002) ----
    state,            \* lifecycle state of the ExecNode
    current_chunk_,   \* SourceNode::current_chunk_
    plan_node_,       \* SourceNode::plan_node_: the table the plan names, or "null"
    table_,           \* SourceNode::table_: the bound table, or "null"
    snapshot,         \* the batch sequence the opened Source reads
    \* ---- the pipeline driving the node ----
    emitted,          \* the batches the Source sent downstream, in order
    status,           \* outcome of the last lifecycle call
    error,            \* the first InputError the pipeline returned, or "none"
    eos,              \* the Source has signalled end-of-stream
    aborted,          \* the process died on an InvariantViolation
    \* ---- history, for stating the properties ----
    at_open,          \* the Table's batches at the moment of Open
    calls,            \* GenerateNext calls made since Open
    num_close,        \* Close calls made (saturating)
    \* ---- ColumnWrapper (shared/types/column_wrapper.h) ----
    debug_build,      \* DCHECK_* are compiled in
    time64ns_arrow_type_id,  \* DataTypeTraits<TIME64NS>::arrow_type_id
    col,              \* the ColumnWrapper under test
    op,               \* the last Column operation and its arguments
    res,              \* what that operation returned
    arr,              \* an arrow::Array
    made,             \* the type the Column was made with
    targ,             \* the type argument, values and index or size of the last typed call
    \* ---- metadata UDFs (carnot/funcs/metadata/metadata_ops.h) ----
    md,               \* the metadata snapshot behind the FunctionContext
    udf,              \* the last UDF call: its name and argument
    ret,              \* what that call returned
    lookups,          \* the name lookups that call made
    \* ---- UPID codec ----
    upid_layout,      \* where md::UPID keeps the pid
    triple,           \* the (asid, pid, start) a UPID is built from, and a second one
    upid_uint128,     \* the UPID value under test
    decoded,          \* what the UPID UDFs return for it
    \* ---- CSV ingestion (part_003) ----
    csv_file,         \* the data rows of the file, and rb_size
    csv_pc,           \* position of GetTableFromCsv
    row_idx,          \* GetTableFromCsv: row_idx
    csv_batch,        \* GetTableFromCsv: batch, <<>> when null
    csv_table,        \* the batches transferred into the new Table
    hdr_fields,       \* the fields of the file's first row
    hdr_pc,           \* position of the header loop
    hdr_types,        \* GetTableFromCsv: types
    hdr_got,          \* the last GetTypeFromHeaderString call: its argument and result
    \* ---- SemVer (stirling/utils/detect_application.cc) ----
    version,          \* the string GetSemVer is given
    sem_ver,          \* the StatusOr<SemVer> it returned
    operands,         \* three SemVer values
    less              \* operator< on each pair of them

tablevars == <<table, table_store>>
nodevars == <<state, current_chunk_, plan_node_, table_, snapshot>>
pipevars == <<emitted, status, error, eos, aborted>>
histvars == <<at_open, calls, num_close>>
colvars == <<debug_build, time64ns_arrow_type_id, col, op, res, arr>>
typedvars == <<made, targ>>
udfvars == <<md, udf, ret, lookups>>
upidvars == <<upid_layout, triple, upid_uint128, decoded>>
csvvars == <<csv_file, csv_pc, row_idx, csv_batch, csv_table>>
hdrvars == <<hdr_fields, hdr_pc, hdr_types, hdr_got>>
semvervars == <<version, sem_ver, operands, less>>
extvars == <<typedvars, udfvars, upidvars, csvvars, hdrvars, semvervars>>
vars == <<tablevars, nodevars, pipevars, histvars, colvars, extvars>>

\* The values of the variables of a part of the model that is not running.
NoMade == [type |-> "none"]
NoTarg == [T |-> "none", vals |-> <<>>, at |-> 0, out |-> <<>>]
TypedIdle == made = NoMade /\ targ = NoTarg
NoUdf == [name |-> "none", arg |-> <<>>]
UdfIdle == md = <<>> /\ udf = NoUdf /\ ret = <<>> /\ lookups = <<>>
UpidIdle == upid_layout = "none" /\ triple = <<>> /\ upid_uint128 = <<>> /\ decoded = <<>>
CsvIdle == csv_file = <<>> /\ csv_pc = "idle" /\ row_idx = 0 /\ csv_batch = <<>> /\ csv_table = <<>>
HdrIdle == hdr_fields = <<>> /\ hdr_pc = "idle" /\ hdr_types = <<>> /\ hdr_got = <<>>
SemVerIdle == version = <<>> /\ sem_ver = <<>> /\ operands = <<>> /\ less = <<>>

----------------------------------------------------------------------------
\* Bounds of the model.

\* The Table holds at most this many batches.
MaxBatches == 3
\* Close calls are counted up to this number.
MaxClose == 2
\* A Column holds at most this many elements.
MaxLen == 2
\* An index list holds at most this many entries.
MaxIdx == 3
\* In a sequence of Column operations, an index list holds at most this many.
MaxOpsIdx == 1
\* A string handed to StringifyVector has at most this many characters.
MaxStrLen == 1
\* A list handed to StringifyVector has at most this many strings.
MaxVec == 3
\* A pod lists at most this many services.
MaxServices == 2
\* A CSV file holds at most this many data rows.
MaxRows == 3
\* rb_size is at most this.
MaxRbSize == 2
\* The first row of a CSV file holds at most this many fields.
MaxCols == 2
\* A version string drawn from VersionChars holds at most this many characters.
MaxVersionLen == 6
\* The fields of the SemVer values compared run up to this.
MaxField == 1

Min(a, b) == IF a < b THEN a ELSE b

----------------------------------------------------------------------------
\* Table and RowBatch.

\* A column of the batches the ingestion path builds.
Int64Column(vals) == [type |-> "INT64", data |-> vals]

\* The Relation of the one Table: a single INT64 column.
Relation == <<"INT64">>

\* The batches a producer may hand to TransferRecordBatch: two one-row
\* batches, a zero-row batch, and a batch that does not match the Relation.
ProducerBatches ==
    { <<Int64Column(<<1>>)>>, <<Int64Column(<<2>>)>>, <<Int64Column(<<>>)>>,
      <<[type |-> "STRING", data |-> << <<"a">> >>]>> }

NumRows(batch) == Len(batch[1].data)

\* A batch conforms when its column types are the Relation's, in order, and
\* its columns have one length.
WellFormed(batch) ==
    /\ Len(batch) = Len(Relation)
    /\ \A i \in 1..Len(batch) : batch[i].type = Relation[i]
    /\ \A i \in 1..Len(batch) : Len(batch[i].data) = NumRows(batch)

\* A transfer that puts the new batch in front of the stored ones.
TransferRecordBatch_Prepend(batches, batch) ==
    IF ~WellFormed(batch) THEN batches
    ELSE IF NumRows(batch) = 0 THEN batches
    ELSE <<batch>> \o batches

\* Table::TransferRecordBatch: the stored sequence after the transfer.
TransferRecordBatch(batches, batch) ==
    IF ~WellFormed(batch) THEN batches
    ELSE IF NumRows(batch) = 0 THEN batches
    ELSE Append(batches, batch)

NumBatches(batches) == Len(batches)

\* The ingestion path hands one batch to the Table.
Ingest(batch) ==
    /\ ~aborted
    /\ NumBatches(table) < MaxBatches
    /\ table' = TransferRecordBatch(table, batch)
    /\ UNCHANGED <<table_store, nodevars, pipevars, histvars, colvars>>
    /\ UNCHANGED extvars

\* table_store->AddTable("csv_table", table)
AddTable ==
    /\ ~aborted
    /\ "csv_table" \notin table_store
    /\ table_store' = table_store \cup {"csv_table"}
    /\ UNCHANGED <<table, nodevars, pipevars, histvars, colvars>>
    /\ UNCHANGED extvars

----------------------------------------------------------------------------
\* The Source ExecNode and the pipeline that drives it.

States == <<"Constructed", "Initialized", "Prepared", "Opened", "Generating", "Closed">>

Rank(s) == CHOOSE i \in 1..Len(States) : States[i] = s

\* The table names a plan may name.
PlanTables == {"csv_table", "no_such_table"}

\* The pipeline calls a lifecycle method only while no error was returned and
\* the process lives.
Running == error = "none" /\ ~aborted

\* Init(planNode, outputSchema, inputSchemas)
InitNode(name, schema_ok) ==
    /\ Running
    /\ state = "Constructed"
    /\ IF schema_ok
       THEN /\ state' = "Initialized"
            /\ plan_node_' = name
            /\ status' = "ok"
            /\ UNCHANGED error
       ELSE /\ status' = "error"
            /\ error' = "SchemaMismatch"
            /\ UNCHANGED <<state, plan_node_>>
    /\ UNCHANGED <<current_chunk_, table_, snapshot, emitted, eos, aborted>>
    /\ UNCHANGED <<tablevars, histvars, colvars>>
    /\ UNCHANGED extvars

\* Prepare(executionState): binds the named Table through the table store.
Prepare ==
    /\ Running
    /\ state = "Initialized"
    /\ IF plan_node_ \in table_store
       THEN /\ state' = "Prepared"
            /\ table_' = plan_node_
            /\ status' = "ok"
            /\ UNCHANGED error
       ELSE /\ status' = "error"
            /\ error' = "TableNotFound"
            /\ UNCHANGED <<state, table_>>
    /\ UNCHANGED <<current_chunk_, plan_node_, snapshot, emitted, eos, aborted>>
    /\ UNCHANGED <<tablevars, histvars, colvars>>
    /\ UNCHANGED extvars

\* The batch sequence an opening reader takes as its view of the Table.
SnapshotAtOpen(batches) == batches

\* The cursor value Open leaves.
OpenCursor == 0

\* Open(executionState): resets the cursor and takes the snapshot; the
\* downstream stage is opened after the Source and may return an InputError.
Open(downstream_ok) ==
    /\ Running
    /\ state = "Prepared"
    /\ state' = "Opened"
    /\ current_chunk_' = OpenCursor
    /\ snapshot' = SnapshotAtOpen(table)
    /\ at_open' = table
    /\ calls' = 0
    /\ IF downstream_ok
       THEN status' = "ok" /\ UNCHANGED error
       ELSE status' = "error" /\ error' = "DownstreamError"
    /\ UNCHANGED <<plan_node_, table_, emitted, eos, aborted, num_close>>
    /\ UNCHANGED <<tablevars, colvars>>
    /\ UNCHANGED extvars

\* Whether the cursor has a batch left to emit.
HasBatch(chunk, batches) == chunk < NumBatches(batches)

\* A Source that emits the first batch whatever the cursor.
BatchAt_First(chunk, batches) == batches[1]

\* The batch the Source emits at a cursor position (0-based, as in the code).
BatchAt(chunk, batches) == batches[chunk + 1]

\* A cursor that skips a batch.
Advance_Skip(chunk) == chunk + 2

\* The cursor after emitting one batch.
Advance(chunk) == chunk + 1

\* GenerateNext(executionState) on a Source that has not signalled
\* end-of-stream: emits the batch under the cursor, or signals end-of-stream.
GenerateNext(downstream_ok) ==
    /\ Running
    /\ state \in {"Opened", "Generating"}
    /\ ~eos
    /\ state' = "Generating"
    /\ calls' = calls + 1
    /\ IF HasBatch(current_chunk_, snapshot)
       THEN /\ emitted' = Append(emitted, BatchAt(current_chunk_, snapshot))
            /\ current_chunk_' = Advance(current_chunk_)
            /\ UNCHANGED eos
            /\ IF downstream_ok
               THEN status' = "ok" /\ UNCHANGED error
               ELSE status' = "error" /\ error' = "DownstreamError"
       ELSE /\ eos' = TRUE
            /\ status' = "eos"
            /\ UNCHANGED <<emitted, current_chunk_, error>>
    /\ UNCHANGED <<plan_node_, table_, snapshot, aborted, at_open, num_close>>
    /\ UNCHANGED <<tablevars, colvars>>
    /\ UNCHANGED extvars

\* GenerateNext past end-of-stream: an InvariantViolation, the process dies.
GenerateNextPastEos ==
    /\ Running
    /\ state = "Generating"
    /\ eos
    /\ aborted' = TRUE
    /\ UNCHANGED <<tablevars, nodevars, emitted, status, error, eos, histvars, colvars>>
    /\ UNCHANGED extvars

\* A Close that is accepted only by a node that was opened.
CanClose_OnlyOpened ==
    /\ ~aborted
    /\ (error # "none" \/ eos \/ state = "Closed")
    /\ state \in {"Opened", "Generating", "Closed"}

\* The pipeline closes the node once the stream is exhausted or a lifecycle
\* call returned an error; the node accepts Close in every state.
CanClose == ~aborted /\ (error # "none" \/ eos \/ state = "Closed")

\* A Close that reports an error when the node is already Closed.
Close_FailsWhenClosed ==
    /\ CanClose
    /\ state' = "Closed"
    /\ table_' = "null"
    /\ snapshot' = <<>>
    /\ IF state = "Closed"
       THEN status' = "error" /\ error' = "AlreadyClosed"
       ELSE status' = "ok" /\ UNCHANGED error
    /\ num_close' = Min(num_close + 1, MaxClose)
    /\ UNCHANGED <<current_chunk_, plan_node_, emitted, eos, aborted, at_open, calls>>
    /\ UNCHANGED <<tablevars, colvars>>
    /\ UNCHANGED extvars

\* A Close that leaves the node ready to be opened again.
Close_Rewinds ==
    /\ CanClose
    /\ state' = IF state = "Generating" THEN "Prepared" ELSE "Closed"
    /\ table_' = IF state = "Generating" THEN table_ ELSE "null"
    /\ snapshot' = <<>>
    /\ status' = "ok"
    /\ error' = "none"
    /\ eos' = FALSE
    /\ num_close' = Min(num_close + 1, MaxClose)
    /\ UNCHANGED <<current_chunk_, plan_node_, emitted, aborted, at_open, calls>>
    /\ UNCHANGED <<tablevars, colvars>>
    /\ UNCHANGED extvars

\* Close(executionState): releases the binding and the snapshot.
Close ==
    /\ CanClose
    /\ state' = "Closed"
    /\ table_' = "null"
    /\ snapshot' = <<>>
    /\ status' = "ok"
    /\ num_close' = Min(num_close + 1, MaxClose)
    /\ UNCHANGED <<current_chunk_, plan_node_, emitted, error, eos, aborted, at_open, calls>>
    /\ UNCHANGED <<tablevars, colvars>>
    /\ UNCHANGED extvars

----------------------------------------------------------------------------
\* ColumnWrapper: a type-erased column of one DataType.

DataTypes == {"BOOLEAN", "INT64", "UINT128", "FLOAT64", "STRING", "TIME64NS"}

\* A StringValue is a sequence of characters.
StringValues == { <<>>, <<"a">>, <<"b", "c">> }

\* The values of each type the model draws from; the first of each pair of
\* numbers is the type's default value.
Values(t) ==
    CASE t = "BOOLEAN" -> {FALSE, TRUE}
      [] t = "INT64" -> {0, 7}
      [] t = "UINT128" -> {0, 9}
      [] t = "FLOAT64" -> {0, 3}
      [] t = "STRING" -> StringValues
      [] t = "TIME64NS" -> {0, 4}

\* The value a value-initialized element holds: std::vector<T>(size).
Default(t) ==
    CASE t = "BOOLEAN" -> FALSE
      [] t = "STRING" -> <<>>
      [] OTHER -> 0

\* All sequences over S of length at most n.
SeqsUpTo(S, n) == UNION { [1..k -> S] : k \in 0..n }

Column(t, data) == [type |-> t, data |-> data]

Size(c) == Len(c.data)

\* Results of an operation that returns a Column, or dies on a failed CHECK.
Returned(c) == [kind |-> "column", col |-> c]
NoColumn == [type |-> "INT64", data |-> <<>>]
Aborted == [kind |-> "abort", col |-> NoColumn]
NoRes == [kind |-> "none", col |-> NoColumn]
NoArr == [type_id |-> "NA", length |-> 0, values |-> <<>>, offsets |-> <<>>, data |-> <<>>]
NoOp == [name |-> "none", idx |-> <<>>, pre |-> NoColumn, origin |-> "none"]

\* A Make that builds an Int64 Column whatever type is asked for.
Make_Int64Only(data_type, size) ==
    IF data_type \in DataTypes
    THEN Returned(Column("INT64", [i \in 1..size |-> 0]))
    ELSE Aborted

\* ColumnWrapper::Make(data_type, size)
Make(data_type, size) ==
    IF data_type \in DataTypes
    THEN Returned(Column(data_type, [i \in 1..size |-> Default(data_type)]))
    ELSE Aborted

\* DCHECK_LE(indexes.size(), data_.size()): fatal in a debug build only.
DCheckLE(a, b) == debug_build => a <= b

\* A copy that reads one slot too far to the left.
CopyIndexes_OffByOne(c, indexes) ==
    IF ~DCheckLE(Len(indexes), Size(c)) THEN Aborted
    ELSE Returned(Column(c.type,
             [i \in 1..Len(indexes) |->
                 c.data[IF indexes[i] = 0 THEN 1 ELSE indexes[i]]]))

\* ColumnWrapperTmpl<T>::CopyIndexes(indexes): indexes are 0-based.
CopyIndexes(c, indexes) ==
    IF ~DCheckLE(Len(indexes), Size(c)) THEN Aborted
    ELSE Returned(Column(c.type,
             [i \in 1..Len(indexes) |-> c.data[indexes[i] + 1]]))

\* What std::move may leave in the slot it moved a value out of: a trivially
\* copyable value stays; a string is left valid but unspecified, empty or intact.
MovedFrom(t, v) == IF t = "STRING" THEN {<<>>, v} ELSE {v}

\* The loop of MoveIndexes from entry i on: every (source, result) pair the
\* loop may end with.
RECURSIVE MoveLoop(_, _, _, _, _)
MoveLoop(t, src, out, indexes, i) ==
    IF i > Len(indexes) THEN { [src |-> src, out |-> out] }
    ELSE LET at == indexes[i] + 1 IN
         UNION { MoveLoop(t, [src EXCEPT ![at] = left], Append(out, src[at]), indexes, i + 1)
                 : left \in MovedFrom(t, src[at]) }

\* ColumnWrapperTmpl<T>::MoveIndexes(indexes): the possible outcomes, each the
\* returned Column with the source Column it leaves behind.
MoveIndexes(c, indexes) ==
    IF ~DCheckLE(Len(indexes), Size(c))
    THEN { [ret |-> Aborted, src |-> c] }
    ELSE { [ret |-> Returned(Column(c.type, o.out)), src |-> Column(c.type, o.src)]
           : o \in MoveLoop(c.type, c.data, <<>>, indexes, 1) }

\* The index lists a caller may pass for a Column of n elements: every entry
\* is in [0, n).
IndexLists(n) == SeqsUpTo(0..(n - 1), MaxIdx)

\* Each operation is applied to a Column as ColInit drew it, or to the live
\* Column of a sequence of operations that began with Make.
Fresh ==
    \/ op.name = "none" /\ made = NoMade
    \/ made # NoMade /\ res.kind # "abort"

CopyIndexesOp(indexes) ==
    /\ Fresh
    /\ op' = [name |-> "CopyIndexes", idx |-> indexes, pre |-> col, origin |-> "none"]
    /\ res' = CopyIndexes(col, indexes)
    /\ arr' = NoArr
    /\ UNCHANGED <<col, debug_build, time64ns_arrow_type_id>>
    /\ UNCHANGED <<tablevars, nodevars, pipevars, histvars>>
    /\ UNCHANGED extvars

MoveIndexesOp(indexes) ==
    /\ Fresh
    /\ \E o \in MoveIndexes(col, indexes) :
          /\ res' = o.ret
          /\ col' = o.src
    /\ op' = [name |-> "MoveIndexes", idx |-> indexes, pre |-> col, origin |-> "none"]
    /\ arr' = NoArr
    /\ UNCHANGED <<debug_build, time64ns_arrow_type_id>>
    /\ UNCHANGED <<tablevars, nodevars, pipevars, histvars>>
    /\ UNCHANGED extvars

----------------------------------------------------------------------------
\* The typed operations of ColumnWrapper and the operations that resize.

\* A type check that only a debug build makes, as DCHECK_EQ does.
TypeCheck_DebugOnly(c, T) == debug_build => c.type = T

\* CHECK_EQ(data_type(), ValueTypeTraits<TValueType>::data_type): fatal in
\* every build.
TypeCheck(c, T) == c.type = T

\* ColumnWrapperTmpl<T>::Append(val)
PushBack(c, val) == Column(c.type, Append(c.data, val))

\* ColumnWrapperTmpl<T>::AppendFromVector(value_vector)
RECURSIVE AppendFromVectorTmpl(_, _)
AppendFromVectorTmpl(c, value_vector) ==
    IF value_vector = <<>> THEN c
    ELSE AppendFromVectorTmpl(PushBack(c, Head(value_vector)), Tail(value_vector))

\* ColumnWrapperTmpl<T>::Resize(size): std::vector::resize
Resize(c, size) ==
    Column(c.type, [i \in 1..size |-> IF i <= Size(c) THEN c.data[i] ELSE Default(c.type)])

\* ColumnWrapperTmpl<T>::Clear()
Clear(c) == Column(c.type, <<>>)

\* The result of a call that returns nothing.
Done == [kind |-> "done", col |-> NoColumn]

\* The sizes and type arguments a caller may pass; DATA_TYPE_UNKNOWN stands
\* for every DataType that Make has no case for.
MakeTypes == DataTypes \cup {"DATA_TYPE_UNKNOWN"}

MakeOp(data_type, size) ==
    /\ made = NoMade
    /\ res = NoRes
    /\ LET r == Make(data_type, size) IN
          /\ res' = r
          /\ col' = IF r.kind = "column" THEN r.col ELSE col
    /\ made' = [type |-> data_type]
    /\ targ' = [T |-> data_type, vals |-> <<>>, at |-> size, out |-> <<>>]
    /\ op' = [name |-> "Make", idx |-> <<>>, pre |-> col, origin |-> "none"]
    /\ UNCHANGED <<arr, debug_build, time64ns_arrow_type_id>>
    /\ UNCHANGED <<tablevars, nodevars, pipevars, histvars, udfvars, upidvars, csvvars, hdrvars, semvervars>>

\* A Column made and not killed by a failed CHECK.
Live == made # NoMade /\ res.kind # "abort"

\* Whether the call before was an Append, and the value it appended.
Origin == IF op.name = "Append" /\ res.kind = "done" THEN "Append" ELSE "none"
Kept == IF Origin = "Append" THEN targ.vals ELSE <<>>

\* ColumnWrapper::Append<T>(val)
AppendOp(T, val) ==
    /\ Live
    /\ Size(col) < MaxLen
    /\ op' = [name |-> "Append", idx |-> <<>>, pre |-> col, origin |-> Origin]
    /\ targ' = [T |-> T, vals |-> <<val>>, at |-> 0, out |-> <<>>]
    /\ IF TypeCheck(col, T)
       THEN col' = PushBack(col, val) /\ res' = Done
       ELSE col' = col /\ res' = Aborted
    /\ UNCHANGED <<made, arr, debug_build, time64ns_arrow_type_id>>
    /\ UNCHANGED <<tablevars, nodevars, pipevars, histvars, udfvars, upidvars, csvvars, hdrvars, semvervars>>

\* ColumnWrapper::AppendFromVector<T>(val)
AppendFromVectorOp(T, val) ==
    /\ Live
    /\ Size(col) + Len(val) <= MaxLen
    /\ op' = [name |-> "AppendFromVector", idx |-> <<>>, pre |-> col, origin |-> Origin]
    /\ targ' = [T |-> T, vals |-> val, at |-> 0, out |-> <<>>]
    /\ IF TypeCheck(col, T)
       THEN col' = AppendFromVectorTmpl(col, val) /\ res' = Done
       ELSE col' = col /\ res' = Aborted
    /\ UNCHANGED <<made, arr, debug_build, time64ns_arrow_type_id>>
    /\ UNCHANGED <<tablevars, nodevars, pipevars, histvars, udfvars, upidvars, csvvars, hdrvars, semvervars>>

\* ColumnWrapper::Get<T>(idx), idx within the Column; targ keeps the values
\* of the call before.
GetOp(T, idx) ==
    /\ Live
    /\ idx < Size(col)
    /\ op' = [name |-> "Get", idx |-> <<>>, pre |-> col, origin |-> Origin]
    /\ IF TypeCheck(col, T)
       THEN /\ targ' = [T |-> T, vals |-> Kept, at |-> idx, out |-> <<col.data[idx + 1]>>]
            /\ res' = Done
       ELSE /\ targ' = [T |-> T, vals |-> Kept, at |-> idx, out |-> <<>>]
            /\ res' = Aborted
    /\ UNCHANGED <<col, made, arr, debug_build, time64ns_arrow_type_id>>
    /\ UNCHANGED <<tablevars, nodevars, pipevars, histvars, udfvars, upidvars, csvvars, hdrvars, semvervars>>

\* Reserve(size) and ShrinkToFit() change the capacity only.
ReserveOp ==
    /\ Live
    /\ op.name # "Reserve"
    /\ op' = [name |-> "Reserve", idx |-> <<>>, pre |-> col, origin |-> Origin]
    /\ res' = Done
    /\ targ' = NoTarg
    /\ UNCHANGED <<col, made, arr, debug_build, time64ns_arrow_type_id>>
    /\ UNCHANGED <<tablevars, nodevars, pipevars, histvars, udfvars, upidvars, csvvars, hdrvars, semvervars>>

ShrinkToFitOp ==
    /\ Live
    /\ op.name # "ShrinkToFit"
    /\ op' = [name |-> "ShrinkToFit", idx |-> <<>>, pre |-> col, origin |-> Origin]
    /\ res' = Done
    /\ targ' = NoTarg
    /\ UNCHANGED <<col, made, arr, debug_build, time64ns_arrow_type_id>>
    /\ UNCHANGED <<tablevars, nodevars, pipevars, histvars, udfvars, upidvars, csvvars, hdrvars, semvervars>>

ResizeOp(size) ==
    /\ Live
    /\ op' = [name |-> "Resize", idx |-> <<>>, pre |-> col, origin |-> Origin]
    /\ col' = Resize(col, size)
    /\ res' = Done
    /\ targ' = NoTarg
    /\ UNCHANGED <<made, arr, debug_build, time64ns_arrow_type_id>>
    /\ UNCHANGED <<tablevars, nodevars, pipevars, histvars, udfvars, upidvars, csvvars, hdrvars, semvervars>>

ClearOp ==
    /\ Live
    /\ op' = [name |-> "Clear", idx |-> <<>>, pre |-> col, origin |-> Origin]
    /\ col' = Clear(col)
    /\ res' = Done
    /\ targ' = NoTarg
    /\ UNCHANGED <<made, arr, debug_build, time64ns_arrow_type_id>>
    /\ UNCHANGED <<tablevars, nodevars, pipevars, histvars, udfvars, upidvars, csvvars, hdrvars, semvervars>>

----------------------------------------------------------------------------
\* Conversion to and from arrow::Array.

\* The type ids an arrow::Array may carry; INT32 stands for every id that
\* FromArrow has no case for.
ArrowTypeIds == {"BOOL", "INT64", "UINT128", "DOUBLE", "STRING", "TIME64", "DURATION", "INT32"}

\* The ids DataTypeTraits<TIME64NS>::arrow_type_id may be: the traits are
\* fixed per build and one id per DataType.
Time64NSArrowTypeIds == {"INT64", "TIME64", "DURATION"}

\* DataTypeTraits<DType>::arrow_type_id
ArrowTypeId(t) ==
    CASE t = "BOOLEAN" -> "BOOL"
      [] t = "INT64" -> "INT64"
      [] t = "UINT128" -> "UINT128"
      [] t = "FLOAT64" -> "DOUBLE"
      [] t = "STRING" -> "STRING"
      [] t = "TIME64NS" -> time64ns_arrow_type_id

RECURSIVE Concat(_)
Concat(strs) == IF strs = <<>> THEN <<>> ELSE Head(strs) \o Concat(Tail(strs))

\* The value offsets of a string array: offsets[i] is where string i starts
\* in the data buffer (0-based), with one closing entry.
RECURSIVE Offsets(_, _)
Offsets(strs, from) ==
    IF strs = <<>> THEN <<from>>
    ELSE <<from>> \o Offsets(Tail(strs), from + Len(Head(strs)))

\* An arrow::Array of a type id over the given values: a fixed-width array
\* keeps the values; a string array keeps one data buffer and its offsets.
ArrowArray(type_id, vals) ==
    IF type_id = "STRING"
    THEN [type_id |-> type_id, length |-> Len(vals), values |-> <<>>,
          offsets |-> Offsets(vals, 0), data |-> Concat(vals)]
    ELSE [type_id |-> type_id, length |-> Len(vals), values |-> vals,
          offsets |-> <<>>, data |-> <<>>]

\* types::ToArrow(data_, mem_pool): builds the array of the type's traits.
ToArrow(c) == ArrowArray(ArrowTypeId(c.type), c.data)

\* arrow::NumericArray / BooleanArray ::Value(i), i 0-based.
Value(a, i) == a.values[i + 1]

\* A GetString that drops the last character of a string.
GetString_Short(a, i) ==
    IF a.offsets[i + 2] > a.offsets[i + 1]
    THEN SubSeq(a.data, a.offsets[i + 1] + 1, a.offsets[i + 2] - 1)
    ELSE <<>>

\* arrow::StringArray::GetString(i), i 0-based.
GetString(a, i) == SubSeq(a.data, a.offsets[i + 1] + 1, a.offsets[i + 2])

\* A decode that fills every slot from the first element of the array.
FromArrowImpl_FirstOnly(DType, a) ==
    IF a.type_id # ArrowTypeId(DType) THEN Aborted
    ELSE Returned(Column(DType,
             [i \in 1..a.length |->
                 IF DType = "STRING" THEN GetString(a, 0) ELSE Value(a, 0)]))

\* FromArrowImpl<TColumnWrapper, DType>(arr) and its two specializations:
\* the CHECK_EQ on the type id, Make(DType, size), then the element loop.
FromArrowImpl(DType, a) ==
    IF a.type_id # ArrowTypeId(DType) THEN Aborted
    ELSE Returned(Column(DType,
             [i \in 1..a.length |->
                 IF DType = "STRING" THEN GetString(a, i - 1) ELSE Value(a, i - 1)]))

\* ColumnWrapper::FromArrow(arr): the switch on the array's type id.
FromArrow(a) ==
    CASE a.type_id = "BOOL" -> FromArrowImpl("BOOLEAN", a)
      [] a.type_id = "INT64" -> FromArrowImpl("INT64", a)
      [] a.type_id = "UINT128" -> FromArrowImpl("UINT128", a)
      [] a.type_id = "DOUBLE" -> FromArrowImpl("FLOAT64", a)
      [] a.type_id = "STRING" -> FromArrowImpl("STRING", a)
      [] a.type_id = "TIME64" -> FromArrowImpl("TIME64NS", a)
      [] a.type_id = "DURATION" -> FromArrowImpl("TIME64NS", a)
      [] OTHER -> Aborted

\* The internal type whose values an external array of a type id carries.
PhysicalType(type_id) ==
    CASE type_id = "BOOL" -> "BOOLEAN"
      [] type_id = "UINT128" -> "UINT128"
      [] type_id = "DOUBLE" -> "FLOAT64"
      [] type_id = "STRING" -> "STRING"
      [] type_id \in {"TIME64", "DURATION"} -> "TIME64NS"
      [] OTHER -> "INT64"

\* ConvertToArrow(mem_pool) on the Column.
ConvertToArrowOp ==
    /\ Fresh
    /\ arr' = ToArrow(col)
    /\ op' = [name |-> "ConvertToArrow", idx |-> <<>>, pre |-> col, origin |-> "none"]
    /\ res' = NoRes
    /\ UNCHANGED <<col, debug_build, time64ns_arrow_type_id>>
    /\ UNCHANGED <<tablevars, nodevars, pipevars, histvars>>
    /\ UNCHANGED extvars

\* An array arrives from outside the engine.
ExternalArrayOp(type_id, vals) ==
    /\ Fresh
    /\ arr' = ArrowArray(type_id, vals)
    /\ op' = [name |-> "External", idx |-> <<>>, pre |-> col, origin |-> "none"]
    /\ res' = NoRes
    /\ UNCHANGED <<col, debug_build, time64ns_arrow_type_id>>
    /\ UNCHANGED <<tablevars, nodevars, pipevars, histvars>>
    /\ UNCHANGED extvars

\* ColumnWrapper::FromArrow(arr) on the array at hand.
FromArrowOp ==
    /\ op.name \in {"ConvertToArrow", "External"}
    /\ res' = FromArrow(arr)
    /\ op' = [name |-> "FromArrow", idx |-> <<>>, pre |-> col, origin |-> op.name]
    /\ UNCHANGED <<col, arr, debug_build, time64ns_arrow_type_id>>
    /\ UNCHANGED <<tablevars, nodevars, pipevars, histvars>>
    /\ UNCHANGED extvars

----------------------------------------------------------------------------
\* The Column variables while the pipeline runs.
ColIdle ==
    /\ debug_build = FALSE
    /\ time64ns_arrow_type_id = "INT64"
    /\ col = NoColumn
    /\ op = NoOp
    /\ res = NoRes
    /\ arr = NoArr

Init ==
    /\ table = <<>>
    /\ table_store = {}
    /\ state = "Constructed"
    /\ current_chunk_ = 0
    /\ plan_node_ = "null"
    /\ table_ = "null"
    /\ snapshot = <<>>
    /\ emitted = <<>>
    /\ status = "none"
    /\ error = "none"
    /\ eos = FALSE
    /\ aborted = FALSE
    /\ at_open = <<>>
    /\ calls = 0
    /\ num_close = 0
    /\ ColIdle
    /\ TypedIdle /\ UdfIdle /\ UpidIdle /\ CsvIdle /\ HdrIdle /\ SemVerIdle

Next ==
    \/ \E b \in ProducerBatches : Ingest(b)
    \/ AddTable
    \/ \E n \in PlanTables, ok \in BOOLEAN : InitNode(n, ok)
    \/ Prepare
    \/ \E ok \in BOOLEAN : Open(ok)
    \/ \E ok \in BOOLEAN : GenerateNext(ok)
    \/ GenerateNextPastEos
    \/ Close

Spec == Init /\ [][Next]_vars

\* The pipeline variables while Column operations run.
PipeIdle ==
    /\ table = <<>>
    /\ table_store = {}
    /\ state = "Constructed"
    /\ current_chunk_ = 0
    /\ plan_node_ = "null"
    /\ table_ = "null"
    /\ snapshot = <<>>
    /\ emitted = <<>>
    /\ status = "none"
    /\ error = "none"
    /\ eos = FALSE
    /\ aborted = FALSE
    /\ at_open = <<>>
    /\ calls = 0
    /\ num_close = 0

\* A Column of any type and content, in either build.
ColInit ==
    /\ PipeIdle
    /\ debug_build \in BOOLEAN
    /\ time64ns_arrow_type_id \in Time64NSArrowTypeIds
    /\ \E t \in DataTypes : \E d \in SeqsUpTo(Values(t), MaxLen) : col = Column(t, d)
    /\ op = NoOp
    /\ res = NoRes
    /\ arr = NoArr
    /\ TypedIdle /\ UdfIdle /\ UpidIdle /\ CsvIdle /\ HdrIdle /\ SemVerIdle

ColNext ==
    \/ \E indexes \in IndexLists(Size(col)) : CopyIndexesOp(indexes)
    \/ \E indexes \in IndexLists(Size(col)) : MoveIndexesOp(indexes)
    \/ ConvertToArrowOp
    \/ \E id \in ArrowTypeIds :
         \E vals \in SeqsUpTo(Values(PhysicalType(id)), MaxLen) : ExternalArrayOp(id, vals)
    \/ FromArrowOp

ColSpec == ColInit /\ [][ColNext]_vars

\* No Column yet, in either build.
ColOpsInit ==
    /\ PipeIdle
    /\ debug_build \in BOOLEAN
    /\ time64ns_arrow_type_id = "INT64"
    /\ col = NoColumn
    /\ op = NoOp
    /\ res = NoRes
    /\ arr = NoArr
    /\ TypedIdle /\ UdfIdle /\ UpidIdle /\ CsvIdle /\ HdrIdle /\ SemVerIdle

\* Make, then any sequence of operations on the Column it made.
ColOpsNext ==
    \/ \E t \in MakeTypes : \E size \in 0..MaxLen : MakeOp(t, size)
    \/ \E T \in DataTypes : \E val \in Values(T) : AppendOp(T, val)
    \/ \E T \in DataTypes : \E val \in SeqsUpTo(Values(T), MaxLen - Size(col)) : AppendFromVectorOp(T, val)
    \/ \E T \in DataTypes : \E idx \in 0..(MaxLen - 1) : GetOp(T, idx)
    \/ ReserveOp
    \/ ShrinkToFitOp
    \/ \E size \in 0..MaxLen : ResizeOp(size)
    \/ ClearOp
    \/ \E indexes \in SeqsUpTo(0..(Size(col) - 1), MaxOpsIdx) : CopyIndexesOp(indexes)
    \/ \E indexes \in SeqsUpTo(0..(Size(col) - 1), MaxOpsIdx) : MoveIndexesOp(indexes)

ColOpsSpec == ColOpsInit /\ [][ColOpsNext]_vars

\* The pipeline runs in one worker of control, which keeps calling
\* GenerateNext until the stream ends and then closes the node.
FairSpec ==
    /\ Spec
    /\ WF_vars(\E ok \in BOOLEAN : GenerateNext(ok))
    /\ WF_vars(Close)

----------------------------------------------------------------------------
\* The metadata UDFs. A string is the sequence of its characters.

\* StringifyVector that writes an array for every non-empty list.
StringifyVector_AlwaysArray(vec) ==
    IF Len(vec) >= 1 THEN <<"[", "\"">> \o vec[1] \o <<"\"", "]">> ELSE <<>>

\* rapidjson Writer: a character of a string, escaped.
EscapeChar(c) ==
    CASE c = "\"" -> <<"\\", "\"">>
      [] c = "\\" -> <<"\\", "\\">>
      [] OTHER -> <<c>>

RECURSIVE Escape(_)
Escape(str) == IF str = <<>> THEN <<>> ELSE EscapeChar(Head(str)) \o Escape(Tail(str))

\* writer.String(str.c_str()): the string, escaped, between quotes.
WriterString(str) == <<"\"">> \o Escape(str) \o <<"\"">>

\* The elements of an array as the Writer puts them out: a comma before every
\* value but the first.
RECURSIVE WriterElements(_, _)
WriterElements(vec, i) ==
    IF i > Len(vec) THEN <<>>
    ELSE (IF i > 1 THEN <<",">> ELSE <<>>) \o WriterString(vec[i]) \o WriterElements(vec, i + 1)

\* StringifyVector(vec)
StringifyVector(vec) ==
    IF Len(vec) = 1 THEN vec[1]
    ELSE IF Len(vec) > 1 THEN <<"[">> \o WriterElements(vec, 1) \o <<"]">>
    ELSE <<>>

\* The strings and lists StringifyVector is applied to.
Chars == {"a", "\"", "\\", ","}
Strings == SeqsUpTo(Chars, MaxStrLen)

StringifyVectorOp(vec) ==
    /\ udf = NoUdf
    /\ udf' = [name |-> "StringifyVector", arg |-> vec]
    /\ ret' = StringifyVector(vec)
    /\ UNCHANGED <<md, lookups>>
    /\ UNCHANGED <<tablevars, nodevars, pipevars, histvars, colvars, typedvars, upidvars, csvvars, hdrvars, semvervars>>

\* Everything but the UDF variables at rest.
OnlyUdf == PipeIdle /\ ColIdle /\ TypedIdle /\ UpidIdle /\ CsvIdle /\ HdrIdle /\ SemVerIdle

VecInit == OnlyUdf /\ UdfIdle

VecNext == udf = NoUdf /\ \E vec \in SeqsUpTo(Strings, MaxVec) : StringifyVectorOp(vec)

VecSpec == VecInit /\ [][VecNext]_vars

----------------------------------------------------------------------------
\* The metadata snapshot and the UDFs that read it.

\* What a lookup returns for an id the snapshot does not hold.
NullPtr == [null |-> TRUE]

\* The ids and the infos a snapshot may hold. A pod lists its services; a
\* terminated pod or service stays in the snapshot with its stop time.
UPIDs == {9}
Cids == {<<"c">>}
PodIds == {<<"p">>, <<"q">>}
ServiceIds == {<<"s">>, <<"t">>}
StopTimes == {0, 5}
PIDInfos == [null : {FALSE}, cid : Cids]
ContainerInfos == [null : {FALSE}, pod_id : PodIds]
PodNames(id) == IF id = <<"p">> THEN {<<"a">>, <<"b">>} ELSE {<<"a">>}
PodInfos(id) ==
    [null : {FALSE}, ns : {<<"n">>}, name : PodNames(id),
     services : SeqsUpTo(ServiceIds, MaxServices),
     node_name : {<<"k">>}, hostname : {<<"h">>}]
ServiceInfo(id, stop) ==
    [null |-> FALSE, ns |-> <<"n">>, name |-> IF id = <<"s">> THEN <<"v">> ELSE <<"w">>,
     stop_time_ns |-> stop]

PartialMaps(K, V) == UNION { [D -> V] : D \in SUBSET K }
PodMaps ==
    UNION { { f \in [D -> UNION { PodInfos(id) : id \in D }] :
                \A id \in D : f[id] \in PodInfos(id) } : D \in SUBSET PodIds }
ServiceMaps ==
    UNION { { [id \in D |-> ServiceInfo(id, st[id])] : st \in [D -> StopTimes] }
            : D \in SUBSET ServiceIds }

\* The name index over a map of infos: every qualified name some info carries
\* resolves to one id whose info carries it.
QualifiedKey(info) == <<info.ns, info.name>>
NameIndexes(infos) ==
    LET keys == { QualifiedKey(infos[id]) : id \in DOMAIN infos } IN
    { f \in [keys -> DOMAIN infos] : \A k \in keys : QualifiedKey(infos[f[k]]) = k }

\* AgentMetadataState::GetPIDByUPID and the lookups of k8s_metadata_state()
GetPIDByUPID(m, upid) == IF upid \in DOMAIN m.pids THEN m.pids[upid] ELSE NullPtr
ContainerInfoByID(m, cid) ==
    IF cid \in DOMAIN m.containers THEN m.containers[cid] ELSE NullPtr
PodInfoByID(m, pod_id) == IF pod_id \in DOMAIN m.pods THEN m.pods[pod_id] ELSE NullPtr
ServiceInfoByID(m, service_id) ==
    IF service_id \in DOMAIN m.services THEN m.services[service_id] ELSE NullPtr
PodIDByName(m, key) == IF key \in DOMAIN m.pods_by_name THEN m.pods_by_name[key] ELSE <<>>
ServiceIDByName(m, key) ==
    IF key \in DOMAIN m.services_by_name THEN m.services_by_name[key] ELSE <<>>

\* absl::StrSplit that drops empty pieces.
RECURSIVE StrSplit_SkipEmpty(_, _)
StrSplit_SkipEmpty(str, sep) ==
    IF str = <<>> THEN <<>>
    ELSE IF Head(str) = sep THEN StrSplit_SkipEmpty(Tail(str), sep)
    ELSE LET rest == StrSplit_SkipEmpty(Tail(str), sep) IN
         IF Len(str) > 1 /\ str[2] # sep /\ rest # <<>>
         THEN <<(<<Head(str)>> \o Head(rest))>> \o Tail(rest)
         ELSE <<(<<Head(str)>>)>> \o rest

\* absl::StrSplit(str, sep): the pieces between separators, empty ones kept.
RECURSIVE StrSplit(_, _)
StrSplit(str, sep) ==
    IF str = <<>> THEN << <<>> >>
    ELSE LET rest == StrSplit(Tail(str), sep) IN
         IF Head(str) = sep THEN << <<>> >> \o rest
         ELSE <<(<<Head(str)>> \o Head(rest))>> \o Tail(rest)

\* absl::Substitute("$0/$1", ns, name)
Substitute(ns, name) == ns \o <<"/">> \o name

\* What a UDF returns, with the name lookups it made.
NoLookup(str) == [ret |-> str, lookups |-> <<>>]

\* PodNameToPodIDUDF::GetPodID
GetPodID(m, pod_name) ==
    LET name_parts == StrSplit(pod_name, "/") IN
    IF Len(name_parts) # 2 THEN NoLookup(<<>>)
    ELSE LET pod_name_view == <<name_parts[1], name_parts[2]>> IN
         [ret |-> PodIDByName(m, pod_name_view),
          lookups |-> << [fn |-> "PodIDByName", key |-> pod_name_view] >>]

\* ServiceNameToServiceIDUDF::Exec
ServiceNameToServiceIDUDF(m, service_name) ==
    LET name_parts == StrSplit(service_name, "/") IN
    IF Len(name_parts) # 2 THEN NoLookup(<<>>)
    ELSE LET service_name_view == <<name_parts[1], name_parts[2]>> IN
         [ret |-> ServiceIDByName(m, service_name_view),
          lookups |-> << [fn |-> "ServiceIDByName", key |-> service_name_view] >>]

\* UPIDToContainerIDUDF::Exec
UPIDToContainerIDUDF(m, upid_value) ==
    LET pid == GetPIDByUPID(m, upid_value) IN
    IF pid.null THEN <<>> ELSE pid.cid

UPIDToContainer(m, upid_value) ==
    LET pid == GetPIDByUPID(m, upid_value) IN
    IF pid.null THEN NullPtr ELSE ContainerInfoByID(m, pid.cid)

\* UPIDtoPod that looks the pod up without checking the container.
UPIDtoPod_Unchecked(m, upid_value) ==
    LET container_info == UPIDToContainer(m, upid_value) IN
    IF container_info.null THEN [null |-> FALSE, ns |-> <<>>, name |-> <<>>, services |-> <<>>,
                                 node_name |-> <<"k">>, hostname |-> <<"h">>]
    ELSE PodInfoByID(m, container_info.pod_id)

UPIDtoPod(m, upid_value) ==
    LET container_info == UPIDToContainer(m, upid_value) IN
    IF container_info.null THEN NullPtr ELSE PodInfoByID(m, container_info.pod_id)

\* UPIDToNamespaceUDF::Exec
UPIDToNamespaceUDF(m, upid_value) ==
    LET pod_info == UPIDtoPod(m, upid_value) IN
    IF pod_info.null THEN <<>> ELSE pod_info.ns

\* UPIDToPodIDUDF::Exec
UPIDToPodIDUDF(m, upid_value) ==
    LET container_info == UPIDToContainer(m, upid_value) IN
    IF container_info.null THEN <<>> ELSE container_info.pod_id

\* UPIDToPodNameUDF::Exec
UPIDToPodNameUDF(m, upid_value) ==
    LET pod_info == UPIDtoPod(m, upid_value) IN
    IF pod_info.null THEN <<>> ELSE Substitute(pod_info.ns, pod_info.name)

\* A loop that keeps every service the snapshot knows, stopped or not.
RECURSIVE RunningServiceIDs_KeepsStopped(_, _, _)
RunningServiceIDs_KeepsStopped(m, services, running_service_ids) ==
    IF services = <<>> THEN running_service_ids
    ELSE LET service_id == Head(services)
             service_info == ServiceInfoByID(m, service_id) IN
         IF service_info.null
         THEN RunningServiceIDs_KeepsStopped(m, Tail(services), running_service_ids)
         ELSE RunningServiceIDs_KeepsStopped(m, Tail(services),
                                             Append(running_service_ids, service_id))

\* for (service_id : pod_info->services()) ... running_service_ids.push_back
RECURSIVE RunningServiceIDs(_, _, _)
RunningServiceIDs(m, services, running_service_ids) ==
    IF services = <<>> THEN running_service_ids
    ELSE LET service_id == Head(services)
             service_info == ServiceInfoByID(m, service_id) IN
         IF service_info.null
         THEN RunningServiceIDs(m, Tail(services), running_service_ids)
         ELSE IF service_info.stop_time_ns = 0
         THEN RunningServiceIDs(m, Tail(services), Append(running_service_ids, service_id))
         ELSE RunningServiceIDs(m, Tail(services), running_service_ids)

\* for (service_id : pod_info->services()) ... running_service_names.push_back
RECURSIVE RunningServiceNames(_, _, _)
RunningServiceNames(m, services, running_service_names) ==
    IF services = <<>> THEN running_service_names
    ELSE LET service_id == Head(services)
             service_info == ServiceInfoByID(m, service_id) IN
         IF service_info.null
         THEN RunningServiceNames(m, Tail(services), running_service_names)
         ELSE IF service_info.stop_time_ns = 0
         THEN RunningServiceNames(m, Tail(services),
                  Append(running_service_names, Substitute(service_info.ns, service_info.name)))
         ELSE RunningServiceNames(m, Tail(services), running_service_names)

\* UPIDToServiceIDUDF::Exec
UPIDToServiceIDUDF(m, upid_value) ==
    LET pod_info == UPIDtoPod(m, upid_value) IN
    IF pod_info.null THEN <<>>
    ELSE IF Len(pod_info.services) = 0 THEN <<>>
    ELSE StringifyVector(RunningServiceIDs(m, pod_info.services, <<>>))

\* UPIDToServiceNameUDF::Exec
UPIDToServiceNameUDF(m, upid_value) ==
    LET pod_info == UPIDtoPod(m, upid_value) IN
    IF pod_info.null THEN <<>>
    ELSE IF Len(pod_info.services) = 0 THEN <<>>
    ELSE StringifyVector(RunningServiceNames(m, pod_info.services, <<>>))

\* UPIDToNodeNameUDF::Exec
UPIDToNodeNameUDF(m, upid_value) ==
    LET pod_info == UPIDtoPod(m, upid_value) IN
    IF pod_info.null THEN <<>> ELSE pod_info.node_name

\* UPIDToHostnameUDF::Exec
UPIDToHostnameUDF(m, upid_value) ==
    LET pod_info == UPIDtoPod(m, upid_value) IN
    IF pod_info.null THEN <<>> ELSE pod_info.hostname

\* PodIDToServiceNameUDF::Exec
PodIDToServiceNameUDF(m, pod_id) ==
    LET pod_info == PodInfoByID(m, pod_id) IN
    IF pod_info.null THEN <<>>
    ELSE StringifyVector(RunningServiceNames(m, pod_info.services, <<>>))

\* A PodIDToServiceIDUDF that formats the names of the services.
PodIDToServiceIDUDF_Names(m, pod_id) == PodIDToServiceNameUDF(m, pod_id)

\* PodIDToServiceIDUDF::Exec
PodIDToServiceIDUDF(m, pod_id) ==
    LET pod_info == PodInfoByID(m, pod_id) IN
    IF pod_info.null THEN <<>>
    ELSE StringifyVector(RunningServiceIDs(m, pod_info.services, <<>>))

\* PodNameToServiceNameUDF::Exec
PodNameToServiceNameUDF(m, pod_name) ==
    LET name_parts == StrSplit(pod_name, "/") IN
    IF Len(name_parts) # 2 THEN NoLookup(<<>>)
    ELSE LET pod_name_view == <<name_parts[1], name_parts[2]>>
             pod_id == PodIDByName(m, pod_name_view)
             pod_info == PodInfoByID(m, pod_id) IN
         [ret |-> IF pod_info.null THEN <<>>
                  ELSE StringifyVector(RunningServiceNames(m, pod_info.services, <<>>)),
          lookups |-> << [fn |-> "PodIDByName", key |-> pod_name_view] >>]

\* PodNameToServiceIDUDF::Exec
PodNameToServiceIDUDF(m, pod_name) ==
    LET name_parts == StrSplit(pod_name, "/") IN
    IF Len(name_parts) # 2 THEN NoLookup(<<>>)
    ELSE LET pod_name_view == <<name_parts[1], name_parts[2]>>
             pod_id == PodIDByName(m, pod_name_view)
             pod_info == PodInfoByID(m, pod_id) IN
         [ret |-> IF pod_info.null THEN <<>>
                  ELSE StringifyVector(RunningServiceIDs(m, pod_info.services, <<>>)),
          lookups |-> << [fn |-> "PodIDByName", key |-> pod_name_view] >>]

UPIDUDFs == {"UPIDToContainerID", "UPIDToNamespace", "UPIDToPodID", "UPIDToPodName",
             "UPIDToServiceID", "UPIDToServiceName", "UPIDToNodeName", "UPIDToHostname"}
PodIDUDFs == {"PodIDToServiceName", "PodIDToServiceID"}
NameUDFs == {"PodNameToPodID", "ServiceNameToServiceID", "PodNameToServiceName",
             "PodNameToServiceID"}

\* A UDF over a UPID is executed on the snapshot.
UPIDExec(name, upid_value) ==
    /\ udf' = [name |-> name, arg |-> upid_value]
    /\ ret' = CASE name = "UPIDToContainerID" -> UPIDToContainerIDUDF(md, upid_value)
                [] name = "UPIDToNamespace" -> UPIDToNamespaceUDF(md, upid_value)
                [] name = "UPIDToPodID" -> UPIDToPodIDUDF(md, upid_value)
                [] name = "UPIDToPodName" -> UPIDToPodNameUDF(md, upid_value)
                [] name = "UPIDToServiceID" -> UPIDToServiceIDUDF(md, upid_value)
                [] name = "UPIDToServiceName" -> UPIDToServiceNameUDF(md, upid_value)
                [] name = "UPIDToNodeName" -> UPIDToNodeNameUDF(md, upid_value)
                [] name = "UPIDToHostname" -> UPIDToHostnameUDF(md, upid_value)
    /\ lookups' = <<>>
    /\ UNCHANGED md
    /\ UNCHANGED <<tablevars, nodevars, pipevars, histvars, colvars, typedvars, upidvars, csvvars, hdrvars, semvervars>>

\* A UDF over a pod id is executed on the snapshot.
PodIDExec(name, pod_id) ==
    /\ udf' = [name |-> name, arg |-> pod_id]
    /\ ret' = CASE name = "PodIDToServiceName" -> PodIDToServiceNameUDF(md, pod_id)
                [] name = "PodIDToServiceID" -> PodIDToServiceIDUDF(md, pod_id)
    /\ lookups' = <<>>
    /\ UNCHANGED md
    /\ UNCHANGED <<tablevars, nodevars, pipevars, histvars, colvars, typedvars, upidvars, csvvars, hdrvars, semvervars>>

\* A UDF over a name is executed on the snapshot.
NameExec(name, str) ==
    /\ udf' = [name |-> name, arg |-> str]
    /\ LET r == CASE name = "PodNameToPodID" -> GetPodID(md, str)
                  [] name = "ServiceNameToServiceID" -> ServiceNameToServiceIDUDF(md, str)
                  [] name = "PodNameToServiceName" -> PodNameToServiceNameUDF(md, str)
                  [] name = "PodNameToServiceID" -> PodNameToServiceIDUDF(md, str)
       IN ret' = r.ret /\ lookups' = r.lookups
    /\ UNCHANGED md
    /\ UNCHANGED <<tablevars, nodevars, pipevars, histvars, colvars, typedvars, upidvars, csvvars, hdrvars, semvervars>>

\* The names a caller may pass: the qualified names of the snapshot, and
\* strings with no separator, an empty piece, or more than one separator.
OddNames ==
    {<<>>, <<"b", "a", "d">>, <<"a", "/", "b", "/", "c">>, <<"n", "/">>, <<"/">>,
     <<"/", "/">>, <<"/", "a">>, <<"a", "/", "/", "b">>}
NameArgs(m) ==
    OddNames
      \cup { Substitute(k[1], k[2]) : k \in DOMAIN m.pods_by_name }
      \cup { Substitute(k[1], k[2]) : k \in DOMAIN m.services_by_name }

\* Any snapshot: every link of the chain UPID, container, pod, service may be
\* missing.
UdfInit ==
    /\ OnlyUdf
    /\ udf = NoUdf
    /\ ret = <<>>
    /\ lookups = <<>>
    /\ \E pids \in PartialMaps(UPIDs, PIDInfos) :
       \E containers \in PartialMaps(Cids, ContainerInfos) :
       \E pods \in PodMaps :
       \E services \in ServiceMaps :
       \E pods_by_name \in NameIndexes(pods) :
       \E services_by_name \in NameIndexes(services) :
          md = [pids |-> pids, containers |-> containers, pods |-> pods,
                services |-> services, pods_by_name |-> pods_by_name,
                services_by_name |-> services_by_name]

UdfNext ==
    /\ udf = NoUdf
    /\ \/ \E name \in UPIDUDFs : \E upid_value \in UPIDs : UPIDExec(name, upid_value)
       \/ \E name \in PodIDUDFs : \E pod_id \in PodIds \cup {<<"x">>} : PodIDExec(name, pod_id)
       \/ \E name \in NameUDFs : \E str \in NameArgs(md) : NameExec(name, str)

UdfSpec == UdfInit /\ [][UdfNext]_vars

----------------------------------------------------------------------------
\* The UPID codec. A word is the sequence of its bits, most significant first,
\* so that the 64 and 128 bit values keep their width.

\* The bits of a uint64_t, and of the ASID and the PID in it.
WordBits == 64
HalfBits == 32

RECURSIVE Repeat(_, _)
Repeat(b, n) ==
    IF n = 0 THEN <<>>
    ELSE LET half == Repeat(b, n \div 2) IN
         half \o half \o (IF n % 2 = 1 THEN <<b>> ELSE <<>>)
Zeros(n) == Repeat(0, n)
Ones(n) == Repeat(1, n)

\* A right shift that copies the top bit in, as it does for a signed value.
ShiftRight_Arithmetic(w, n) == Repeat(w[1], n) \o SubSeq(w, 1, Len(w) - n)

\* w >> n on an unsigned word
ShiftRight(w, n) == Zeros(n) \o SubSeq(w, 1, Len(w) - n)

\* An unsigned value of fewer bits, widened to the 64 bits of an int64_t.
ZeroExtend(w) == Zeros(WordBits - Len(w)) \o w

\* types::UInt128Value and absl::MakeUint128(high, low)
MakeUint128(high, low) == [high |-> high, low |-> low]
High64(v) == v.high
Low64(v) == v.low

\* UPIDToASIDUDF::Exec
UPIDToASIDUDF(upid_value) == ShiftRight(High64(upid_value), HalfBits)

\* Where md::UPID keeps the pid: next to the ASID in the high word, with the
\* start time filling the low word, or in the low word with the start time.
Layouts == {"pid_in_high", "pid_in_low"}
StartBits(layout) == IF layout = "pid_in_high" THEN WordBits ELSE HalfBits

\* An encoder that loses the top bit of the pid.
Encode_PidMasked(layout, t) ==
    IF layout = "pid_in_high"
    THEN MakeUint128(t.asid \o (<<0>> \o Tail(t.pid)), t.start)
    ELSE MakeUint128(t.asid \o Zeros(HalfBits), (<<0>> \o Tail(t.pid)) \o t.start)

\* md::UPID(asid, pid, start_ts)
Encode(layout, t) ==
    IF layout = "pid_in_high"
    THEN MakeUint128(t.asid \o t.pid, t.start)
    ELSE MakeUint128(t.asid \o Zeros(HalfBits), t.pid \o t.start)

\* md::UPID::asid(), pid() and start_ts()
Asid(layout, v) == SubSeq(v.high, 1, HalfBits)
Pid(layout, v) ==
    IF layout = "pid_in_high" THEN SubSeq(v.high, HalfBits + 1, WordBits)
    ELSE SubSeq(v.low, 1, HalfBits)
StartTS(layout, v) ==
    IF layout = "pid_in_high" THEN v.low ELSE SubSeq(v.low, HalfBits + 1, WordBits)
Decode(layout, v) == [asid |-> Asid(layout, v), pid |-> Pid(layout, v), start |-> StartTS(layout, v)]

\* UPIDToPIDUDF::Exec
UPIDToPIDUDF(layout, upid_value) ==
    LET upid_val == MakeUint128(High64(upid_value), Low64(upid_value)) IN
    ZeroExtend(Pid(layout, upid_val))

\* The decimal digits of an unsigned word: the digits so far doubled, plus
\* the next bit, for every bit from the top.
DecimalWidth == WordBits \div 3
DoubleAdd(ds, b) ==
    <<>> \o [i \in 1..DecimalWidth |->
        (2 * ds[i] + (IF i = DecimalWidth THEN b ELSE IF ds[i + 1] >= 5 THEN 1 ELSE 0)) % 10]
RECURSIVE Digits(_, _, _)
Digits(w, i, ds) ==
    IF Len(ds) = DecimalWidth /\ i > Len(w) THEN ds
    ELSE IF i = Len(w) THEN DoubleAdd(ds, w[i])
    ELSE Digits(w, i + 2, DoubleAdd(DoubleAdd(ds, w[i]), w[i + 1]))
RECURSIVE StripZeros(_)
StripZeros(ds) == IF Len(ds) > 1 /\ Head(ds) = 0 THEN StripZeros(Tail(ds)) ELSE ds
DigitChars == <<"0", "1", "2", "3", "4", "5", "6", "7", "8", "9">>
RECURSIVE DigitString(_)
DigitString(ds) ==
    IF ds = <<>> THEN <<>> ELSE <<DigitChars[Head(ds) + 1]>> \o DigitString(Tail(ds))
Decimal(w) == DigitString(StripZeros(Digits(w, 1, Zeros(DecimalWidth))))

\* md::UPID::String(): the three fields in decimal, with a colon between.
UPIDString(layout, v) ==
    Decimal(Asid(layout, v)) \o <<":">> \o Decimal(Pid(layout, v)) \o <<":">>
        \o Decimal(StartTS(layout, v))

\* UPIDToStringUDF::Exec
UPIDToStringUDF(layout, upid_value) ==
    LET upid_val == MakeUint128(High64(upid_value), Low64(upid_value)) IN
    UPIDString(layout, upid_val)

\* The values a field of n bits is drawn from: 0, 1, 2^(n-1) and 2^n - 1.
Patterns(n) == {Zeros(n), Zeros(n - 1) \o <<1>>, <<1>> \o Zeros(n - 1), Ones(n)}
Triples(layout) ==
    [asid : Patterns(HalfBits), pid : Patterns(HalfBits), start : Patterns(StartBits(layout))]

\* The two triples are encoded.
EncodeOp ==
    /\ upid_uint128 = <<>>
    /\ triple # <<>>
    /\ upid_uint128' = <<Encode(upid_layout, triple[1]), Encode(upid_layout, triple[2])>>
    /\ UNCHANGED <<upid_layout, triple, decoded>>
    /\ UNCHANGED <<tablevars, nodevars, pipevars, histvars, colvars, typedvars, udfvars, csvvars, hdrvars, semvervars>>

\* One of the UPID UDFs, or the decoder, is applied to the i-th UPID.
UPIDToASIDOp(i) ==
    /\ decoded = <<>>
    /\ i \in DOMAIN upid_uint128
    /\ decoded' = [udf |-> "UPIDToASID", of |-> i, val |-> UPIDToASIDUDF(upid_uint128[i])]
    /\ UNCHANGED <<upid_layout, triple, upid_uint128>>
    /\ UNCHANGED <<tablevars, nodevars, pipevars, histvars, colvars, typedvars, udfvars, csvvars, hdrvars, semvervars>>

UPIDToPIDOp(i) ==
    /\ decoded = <<>>
    /\ i \in DOMAIN upid_uint128
    /\ decoded' = [udf |-> "UPIDToPID", of |-> i,
                   val |-> UPIDToPIDUDF(upid_layout, upid_uint128[i])]
    /\ UNCHANGED <<upid_layout, triple, upid_uint128>>
    /\ UNCHANGED <<tablevars, nodevars, pipevars, histvars, colvars, typedvars, udfvars, csvvars, hdrvars, semvervars>>

UPIDToStringOp ==
    /\ decoded = <<>>
    /\ upid_uint128 # <<>>
    /\ decoded' = [udf |-> "UPIDToString", of |-> 0,
                   val |-> <<UPIDToStringUDF(upid_layout, upid_uint128[1]),
                             UPIDToStringUDF(upid_layout, upid_uint128[2])>>]
    /\ UNCHANGED <<upid_layout, triple, upid_uint128>>
    /\ UNCHANGED <<tablevars, nodevars, pipevars, histvars, colvars, typedvars, udfvars, csvvars, hdrvars, semvervars>>

DecodeOp(i) ==
    /\ decoded = <<>>
    /\ i \in DOMAIN upid_uint128
    /\ decoded' = [udf |-> "Decode", of |-> i, val |-> Decode(upid_layout, upid_uint128[i])]
    /\ UNCHANGED <<upid_layout, triple, upid_uint128>>
    /\ UNCHANGED <<tablevars, nodevars, pipevars, histvars, colvars, typedvars, udfvars, csvvars, hdrvars, semvervars>>

\* Everything but the UPID variables at rest.
OnlyUpid == PipeIdle /\ ColIdle /\ TypedIdle /\ UdfIdle /\ CsvIdle /\ HdrIdle /\ SemVerIdle

\* Any two triples, under either layout.
UpidInit ==
    /\ OnlyUpid
    /\ upid_layout \in Layouts
    /\ \E x \in Triples(upid_layout) : \E y \in Triples(upid_layout) : triple = <<x, y>>
    /\ upid_uint128 = <<>>
    /\ decoded = <<>>

UpidNext ==
    \/ EncodeOp
    \/ \E i \in 1..2 : UPIDToASIDOp(i)
    \/ \E i \in 1..2 : UPIDToPIDOp(i)
    \/ UPIDToStringOp
    \/ \E i \in 1..2 : DecodeOp(i)

UpidSpec == UpidInit /\ [][UpidNext]_vars

\* Any 128-bit value, whatever it was built from.
AsidInit ==
    /\ OnlyUpid
    /\ upid_layout = "none"
    /\ triple = <<>>
    /\ \E hu \in Patterns(HalfBits) : \E hl \in Patterns(HalfBits) :
       \E low \in Patterns(WordBits) : upid_uint128 = << MakeUint128(hu \o hl, low) >>
    /\ decoded = <<>>

AsidNext == UPIDToASIDOp(1)

AsidSpec == AsidInit /\ [][AsidNext]_vars

----------------------------------------------------------------------------
\* The CSV ingestion of the offline harness: GetTableFromCsv, from the first
\* data row on. A field is the sequence of its characters.

\* The largest int, which std::stoi returns.
IntMax == 2147483647

IsDigit(c) == \E d \in 1..10 : DigitChars[d] = c
DigitValue(c) == (CHOOSE d \in 1..10 : DigitChars[d] = c) - 1

\* std::stoi(field): the digits at the front of the field as an int;
\* std::invalid_argument without a digit, std::out_of_range beyond an int.
RECURSIVE StoiFrom(_, _, _)
StoiFrom(field, i, acc) ==
    IF i > Len(field) \/ ~IsDigit(field[i])
    THEN IF i = 1 THEN [ok |-> FALSE, val |-> 0] ELSE [ok |-> TRUE, val |-> acc]
    ELSE LET d == DigitValue(field[i]) IN
         IF acc > (IntMax - d) \div 10 THEN [ok |-> FALSE, val |-> 0]
         ELSE StoiFrom(field, i + 1, acc * 10 + d)
Stoi(field) == StoiFrom(field, 1, 0)

\* The value a field is appended as, per column type.
ConvertField(type, field) ==
    CASE type \in {"INT64", "TIME64NS"} -> Stoi(field)
      [] type = "BOOLEAN" -> [ok |-> TRUE, val |-> (field = <<"t", "r", "u", "e">>)]
      [] type = "STRING" -> [ok |-> TRUE, val |-> field]

\* The files: the column types of the header, the data rows, and rb_size.
\* Every row holds one field per column, written as its type is written.
CsvTypes == {<<"INT64">>, <<"STRING", "INT64">>, <<"BOOLEAN", "TIME64NS">>}
IntFields ==
    {<<"7">>, <<"2", "1", "4", "7", "4", "8", "3", "6", "4", "7">>,
     <<"2", "1", "4", "7", "4", "8", "3", "6", "4", "8">>}
Fields(type) ==
    CASE type \in {"INT64", "TIME64NS"} -> IntFields
      [] type = "BOOLEAN" -> {<<"t", "r", "u", "e">>, <<"f", "a", "l", "s", "e">>}
      [] type = "STRING" -> {<<"a">>}
Rows(types) ==
    { row \in [1..Len(types) -> UNION { Fields(types[c]) : c \in 1..Len(types) }] :
        \A c \in 1..Len(types) : row[c] \in Fields(types[c]) }

\* Table::TransferRecordBatch on the Table of the file's Relation: a batch
\* that conforms is stored at the end; any other is refused, which
\* GetTableFromCsv logs.
ConformsTo(types, b) ==
    /\ Len(b) = Len(types)
    /\ \A c \in 1..Len(b) : b[c].type = types[c] /\ Len(b[c].data) = Len(b[1].data)
TransferToCsvTable(types, batches, b) ==
    IF ConformsTo(types, b) THEN Append(batches, b) ELSE batches

\* A new batch: ColumnWrapper::Make(type, 0) for each type.
NewBatch(types) == [c \in 1..Len(types) |-> Make(types[c], 0).col]

\* One pass of the loop over the data rows.
ReadRow ==
    /\ csv_pc = "rows"
    /\ row_idx < Len(csv_file.rows)
    /\ LET types == csv_file.types
           row == csv_file.rows[row_idx + 1]
           starts == row_idx % csv_file.rb_size = 0
           cur == IF starts THEN NewBatch(types) ELSE csv_batch
           conv == [c \in 1..Len(types) |-> ConvertField(types[c], row[c])]
       IN /\ csv_table' = IF starts /\ csv_batch # <<>>
                          THEN TransferToCsvTable(types, csv_table, csv_batch)
                          ELSE csv_table
          /\ IF \A c \in 1..Len(types) : conv[c].ok
             THEN /\ csv_batch' = [c \in 1..Len(types) |-> PushBack(cur[c], conv[c].val)]
                  /\ row_idx' = row_idx + 1
                  /\ UNCHANGED csv_pc
             ELSE /\ csv_pc' = "terminated"
                  /\ csv_batch' = cur
                  /\ UNCHANGED row_idx
    /\ UNCHANGED csv_file
    /\ UNCHANGED <<tablevars, nodevars, pipevars, histvars, colvars, typedvars, udfvars, upidvars, hdrvars, semvervars>>

\* The final flush. Without a data row batch is still null and batch->at(0)
\* dereferences it: the process dies, or goes on without a batch to transfer.
FinalFlush ==
    /\ csv_pc = "rows"
    /\ row_idx = Len(csv_file.rows)
    /\ IF csv_batch = <<>>
       THEN /\ csv_pc' \in {"terminated", "done"}
            /\ UNCHANGED <<csv_table, csv_batch>>
       ELSE /\ csv_pc' = "done"
            /\ IF Size(csv_batch[1]) > 0
               THEN /\ csv_table' = TransferToCsvTable(csv_file.types, csv_table, csv_batch)
                    /\ csv_batch' = <<>>
               ELSE UNCHANGED <<csv_table, csv_batch>>
    /\ UNCHANGED <<csv_file, row_idx>>
    /\ UNCHANGED <<tablevars, nodevars, pipevars, histvars, colvars, typedvars, udfvars, upidvars, hdrvars, semvervars>>

\* Everything but the ingestion variables at rest.
OnlyCsv == PipeIdle /\ ColIdle /\ TypedIdle /\ UdfIdle /\ UpidIdle /\ HdrIdle /\ SemVerIdle

\* Any file, header read, before the first data row.
CsvInit ==
    /\ OnlyCsv
    /\ \E types \in CsvTypes : \E rows \in SeqsUpTo(Rows(types), MaxRows) :
       \E rb_size \in 1..MaxRbSize :
          csv_file = [types |-> types, rows |-> rows, rb_size |-> rb_size]
    /\ csv_pc = "rows"
    /\ row_idx = 0
    /\ csv_batch = <<>>
    /\ csv_table = <<>>

CsvNext == ReadRow \/ FinalFlush

CsvSpec == CsvInit /\ [][CsvNext]_vars

----------------------------------------------------------------------------
\* The header of the CSV file: GetTypeFromHeaderString and the loop of
\* GetTableFromCsv over the first row.

\* A StatusOr: a value, or an error with its code and message.
OkValue(v) == [ok |-> TRUE, code |-> "OK", msg |-> "", val |-> v]
InvalidArgument(msg) == [ok |-> FALSE, code |-> "InvalidArgument", msg |-> msg, val |-> "none"]

GetTypeFromHeaderString(type) ==
    IF type = "int64" THEN OkValue("INT64")
    ELSE IF type = "float64" THEN OkValue("FLOAT64")
    ELSE IF type = "boolean" THEN OkValue("BOOLEAN")
    ELSE IF type = "string" THEN OkValue("STRING")
    ELSE IF type = "time64ns" THEN OkValue("TIME64NS")
    ELSE InvalidArgument("Could not recognize type from header.")

\* The fields a first row can hold: the type names, and other strings.
HeaderStrings ==
    {"boolean", "int64", "uint128", "float64", "string", "time64ns", "INT64", "int32", ""}

\* One pass of the loop over the fields of the first row:
\* GetTypeFromHeaderString(field).ConsumeValueOrDie() ends the process on an
\* error, and the type is pushed back otherwise.
ReadHeaderField ==
    /\ hdr_pc = "types"
    /\ Len(hdr_types) < Len(hdr_fields)
    /\ LET field == hdr_fields[Len(hdr_types) + 1]
           type == GetTypeFromHeaderString(field)
       IN /\ hdr_got' = [type |-> field, ret |-> type]
          /\ IF type.ok
             THEN /\ hdr_types' = Append(hdr_types, type.val)
                  /\ UNCHANGED hdr_pc
             ELSE /\ hdr_pc' = "terminated"
                  /\ UNCHANGED hdr_types
    /\ UNCHANGED hdr_fields
    /\ UNCHANGED <<tablevars, nodevars, pipevars, histvars, colvars, typedvars, udfvars, upidvars, csvvars, semvervars>>

\* The end of the first row: the loop goes on to the row of names.
EndOfHeaderRow ==
    /\ hdr_pc = "types"
    /\ Len(hdr_types) = Len(hdr_fields)
    /\ hdr_pc' = "names"
    /\ UNCHANGED <<hdr_fields, hdr_types, hdr_got>>
    /\ UNCHANGED <<tablevars, nodevars, pipevars, histvars, colvars, typedvars, udfvars, upidvars, csvvars, semvervars>>

HdrInit ==
    /\ PipeIdle /\ ColIdle /\ TypedIdle /\ UdfIdle /\ UpidIdle /\ CsvIdle /\ SemVerIdle
    /\ hdr_fields \in SeqsUpTo(HeaderStrings, MaxCols)
    /\ hdr_pc = "types"
    /\ hdr_types = <<>>
    /\ hdr_got = <<>>

HdrNext == ReadHeaderField \/ EndOfHeaderRow

HdrSpec == HdrInit /\ [][HdrNext]_vars

----------------------------------------------------------------------------
\* SemVer: GetSemVer and operator<. A string is the sequence of its
\* characters; a SemVer is a record of three ints.

SemVer(major, minor, patch) == [major |-> major, minor |-> minor, patch |-> patch]

\* std::lexicographical_compare over two vectors of ints.
RECURSIVE LexicographicalCompare_FirstOnly(_, _)
LexicographicalCompare_FirstOnly(a, b) ==
    IF b = <<>> THEN FALSE
    ELSE IF a = <<>> THEN TRUE
    ELSE Head(a) < Head(b)

RECURSIVE LexicographicalCompare(_, _)
LexicographicalCompare(a, b) ==
    IF b = <<>> THEN FALSE
    ELSE IF a = <<>> THEN TRUE
    ELSE IF Head(a) < Head(b) THEN TRUE
    ELSE IF Head(b) < Head(a) THEN FALSE
    ELSE LexicographicalCompare(Tail(a), Tail(b))

\* operator<(const SemVer&, const SemVer&)
OperatorLess(lhs, rhs) ==
    LexicographicalCompare(<<lhs.major, lhs.minor, lhs.patch>>,
                           <<rhs.major, rhs.minor, rhs.patch>>)

\* The index after the digits that start at i.
RECURSIVE DigitsEnd(_, _)
DigitsEnd(str, i) ==
    IF i <= Len(str) /\ IsDigit(str[i]) THEN DigitsEnd(str, i + 1) ELSE i

\* Where a match of [0-9]+\.[0-9]+\.[0-9] that starts at i ends, or 0 when
\* none starts there. A run of digits is followed by no digit, so only the
\* whole run can be followed by the dot.
MatchEnd(str, i) ==
    LET j == DigitsEnd(str, i)
        k == DigitsEnd(str, j + 1)
    IN IF /\ j > i /\ j <= Len(str) /\ str[j] = "."
          /\ k > j + 1 /\ k <= Len(str) /\ str[k] = "."
          /\ k + 1 <= Len(str) /\ IsDigit(str[k + 1])
       THEN k + 1 ELSE 0

\* std::regex_search: the match at the leftmost position that has one.
RECURSIVE RegexSearchFrom(_, _)
RegexSearchFrom(str, i) ==
    IF i > Len(str) THEN [found |-> FALSE, str |-> <<>>]
    ELSE IF MatchEnd(str, i) # 0
         THEN [found |-> TRUE, str |-> SubSeq(str, i, MatchEnd(str, i))]
         ELSE RegexSearchFrom(str, i + 1)
RegexSearch(str) == RegexSearchFrom(str, 1)

\* absl::SimpleAtoi into an int: the digits of the whole field as a
\* number, or failure for an empty field, a character that is no digit, or a
\* value beyond an int.
RECURSIVE SimpleAtoiFrom(_, _, _)
SimpleAtoiFrom(field, i, acc) ==
    IF i > Len(field) THEN [ok |-> i > 1, val |-> acc]
    ELSE IF ~IsDigit(field[i]) THEN [ok |-> FALSE, val |-> 0]
    ELSE LET d == DigitValue(field[i]) IN
         IF acc > (IntMax - d) \div 10 THEN [ok |-> FALSE, val |-> 0]
         ELSE SimpleAtoiFrom(field, i + 1, acc * 10 + d)
SimpleAtoi(field) == SimpleAtoiFrom(field, 1, 0)

GetSemVer_ZeroWithoutMatch(str) ==
    LET match == RegexSearch(str) IN
    IF ~match.found THEN OkValue(SemVer(0, 0, 0))
    ELSE LET fields == StrSplit(match.str, ".") IN
         OkValue(SemVer(SimpleAtoi(fields[1]).val, SimpleAtoi(fields[2]).val,
                        SimpleAtoi(fields[3]).val))

GetSemVer(str) ==
    LET match == RegexSearch(str) IN
    IF ~match.found
    THEN InvalidArgument(<<"Input '$0' does not contain a semantic version number", str>>)
    ELSE LET sem_ver_str == match.str
             fields == StrSplit(sem_ver_str, ".")
         IN IF Len(fields) # 3
            THEN InvalidArgument(<<"Invalid semantic version '$0', must have 3 dot-separated fields, as in <major>.<minor>.<patch>", sem_ver_str>>)
            ELSE IF ~SimpleAtoi(fields[1]).ok
            THEN InvalidArgument(<<"Major version '$0' is not a number", fields[1]>>)
            ELSE IF ~SimpleAtoi(fields[2]).ok
            THEN InvalidArgument(<<"Minor version '$0' is not a number", fields[2]>>)
            ELSE IF ~SimpleAtoi(fields[3]).ok
            THEN InvalidArgument(<<"Patch version '$0' is not a number", fields[3]>>)
            ELSE OkValue(SemVer(SimpleAtoi(fields[1]).val, SimpleAtoi(fields[2]).val,
                                SimpleAtoi(fields[3]).val))

\* The strings GetSemVer is given: every short string of digits, dots and
\* letters, and versions with a field at and beyond the largest int.
VersionChars == {"1", "2", ".", "a"}
LargestInt == <<"2", "1", "4", "7", "4", "8", "3", "6", "4", "7">>
BeyondInt == <<"2", "1", "4", "7", "4", "8", "3", "6", "4", "8">>
Versions ==
    SeqsUpTo(VersionChars, MaxVersionLen)
        \cup {LargestInt \o <<".", "1", ".", "2">>, BeyondInt \o <<".", "1", ".", "2">>,
              <<"1", ".">> \o BeyondInt \o <<".", "2">>}

GetSemVerOp ==
    /\ sem_ver = <<>>
    /\ sem_ver' = GetSemVer(version)
    /\ UNCHANGED <<version, operands, less>>
    /\ UNCHANGED <<tablevars, nodevars, pipevars, histvars, colvars, typedvars, udfvars, upidvars, csvvars, hdrvars>>

OnlySemVer == PipeIdle /\ ColIdle /\ TypedIdle /\ UdfIdle /\ UpidIdle /\ CsvIdle /\ HdrIdle

SemVerInit ==
    /\ OnlySemVer
    /\ version \in Versions
    /\ sem_ver = <<>>
    /\ operands = <<>>
    /\ less = <<>>

SemVerNext == GetSemVerOp

SemVerSpec == SemVerInit /\ [][SemVerNext]_vars

\* operator< on every pair of three SemVer values.
CompareOp ==
    /\ less = <<>>
    /\ less' = <<>> \o [i \in 1..3 |-> <<>> \o [j \in 1..3 |-> OperatorLess(operands[i], operands[j])]]
    /\ UNCHANGED <<version, sem_ver, operands>>
    /\ UNCHANGED <<tablevars, nodevars, pipevars, histvars, colvars, typedvars, udfvars, upidvars, csvvars, hdrvars>>

SemVers == { SemVer(a, b, c) : a, b, c \in -1..MaxField }

LessInit ==
    /\ OnlySemVer
    /\ version = <<>>
    /\ sem_ver = <<>>
    /\ operands \in SemVers \X SemVers \X SemVers
    /\ less = <<>>

LessNext == CompareOp

LessSpec == LessInit /\ [][LessNext]_vars

----------------------------------------------------------------------------
\* Properties of the Source node and the pipeline.

IsPrefix(s, t) == Len(s) <= Len(t) /\ SubSeq(t, 1, Len(s)) = s

\* C1: a Source opened over a Table holding B1..Bk emits, on its i-th
\* GenerateNext call (i <= k), exactly the batch Bi, and on the (k+1)-th call
\* emits nothing and signals end-of-stream, which is not an error.
C1_SourceEmitsTableInOrder ==
    LET k == Len(at_open) IN
    /\ calls <= k + 1
    /\ emitted = SubSeq(at_open, 1, Min(calls, k))
    /\ eos <=> calls = k + 1
    /\ eos => error = "none"
    /\ (eos /\ state # "Closed") => status = "eos"
    /\ status = "eos" => eos

C1_Witness ==
    /\ eos
    /\ Len(at_open) = 2
    /\ Len(emitted) = 2
    /\ emitted[1] # emitted[2]
    /\ calls = 3

\* C2: the lifecycle state only moves forward along Constructed, Initialized,
\* Prepared, Opened, Generating, Closed; each state is entered only from its
\* predecessor (Closed from any), and GenerateNext is only taken from Opened
\* or Generating.
C2_LifecycleOnlyForward ==
    [][ /\ Rank(state') >= Rank(state)
        /\ state' # state =>
             \/ state = "Constructed" /\ state' = "Initialized"
             \/ state = "Initialized" /\ state' = "Prepared"
             \/ state = "Prepared" /\ state' = "Opened"
             \/ state = "Opened" /\ state' = "Generating"
             \/ state' = "Closed"
        /\ calls' > calls => state \in {"Opened", "Generating"} ]_vars

C2_Witness == state = "Closed" /\ calls = 2 /\ num_close = 2

\* C3: Close on a node that is already Closed can be taken, succeeds, and
\* leaves the node as the first Close left it.
C3_CloseIdempotent ==
    /\ [](state = "Closed" => ENABLED Close)
    /\ [][ state = "Closed" =>
             /\ state' = "Closed"
             /\ status' = "ok"
             /\ error' = error
             /\ current_chunk_' = current_chunk_
             /\ table_' = "null"
             /\ snapshot' = <<>>
             /\ emitted' = emitted ]_vars

C3_Witness == state = "Closed" /\ num_close = 2 /\ current_chunk_ = 2 /\ status = "ok"

\* C4: once a lifecycle call has returned an InputError, the pipeline keeps
\* that first error as its result, Close can be taken in every later state,
\* and Close is eventually executed.
C4_ErrorStillReachesClose ==
    /\ [](status = "error" => error # "none")
    /\ [][error # "none" => error' = error]_vars
    /\ [](error # "none" => ENABLED Close)
    /\ (error # "none") ~> (state = "Closed")

C4_Witness == error = "TableNotFound" /\ state = "Closed" /\ num_close >= 1

\* C5: Open leaves the cursor at zero; afterwards the cursor never decreases
\* and moves by exactly one on each GenerateNext that emits a batch, and on
\* nothing else.
C5_CursorMonotone ==
    /\ [](state = "Opened" => current_chunk_ = 0)
    /\ [][ /\ current_chunk_' >= current_chunk_
           /\ Len(emitted') = Len(emitted) + 1 => current_chunk_' = current_chunk_ + 1
           /\ current_chunk_' # current_chunk_ => Len(emitted') = Len(emitted) + 1 ]_vars

C5_Witness == state = "Generating" /\ current_chunk_ = 2 /\ ~eos

----------------------------------------------------------------------------
\* Properties of the ColumnWrapper.

\* What the comments of CopyIndexes and MoveIndexes promise of the returned
\* Column: { data[idx[0]], data[idx[1]], ... } of the source's type.
Selects(r, source, indexes) ==
    /\ r.kind = "column"
    /\ r.col.type = source.type
    /\ Size(r.col) = Len(indexes)
    /\ \A i \in 1..Len(indexes) : r.col.data[i] = source.data[indexes[i] + 1]

\* C7 as stated: for any index list with entries in [0, N), CopyIndexes
\* returns the selected elements in a new Column of the same type and leaves
\* the source unchanged.
C7_CopyIndexesAnyIndexList ==
    op.name = "CopyIndexes" => Selects(res, op.pre, op.idx) /\ col = op.pre

\* C7, amended: the same for an index list of at most N entries (of any
\* length in a build without DCHECKs).
C7_CopyIndexesSelects ==
    (op.name = "CopyIndexes" /\ (~debug_build \/ Len(op.idx) <= Size(op.pre)))
        => Selects(res, op.pre, op.idx) /\ col = op.pre

C7_Witness ==
    /\ op.name = "CopyIndexes"
    /\ debug_build
    /\ op.pre.type = "STRING"
    /\ op.idx = <<1, 1>>
    /\ op.pre.data[1] # op.pre.data[2]
    /\ res.kind = "column"

\* C8: for every index list CopyIndexes accepts, MoveIndexes returns a Column
\* of the same type, length and element values as CopyIndexes returns.
C8_MoveIndexesEqualsCopyIndexes ==
    (op.name = "MoveIndexes" /\ CopyIndexes(op.pre, op.idx).kind = "column")
        => /\ res.kind = "column"
           /\ res.col.type = CopyIndexes(op.pre, op.idx).col.type
           /\ res.col.data = CopyIndexes(op.pre, op.idx).col.data

\* C9: for each DataType and every Column c of it, FromArrow of
\* c.ConvertToArrow() returns a Column of c's length whose elements equal c's.
C9_ArrowRoundTrip ==
    (op.name = "FromArrow" /\ op.origin = "ConvertToArrow")
        => /\ res.kind = "column"
           /\ Size(res.col) = Size(col)
           /\ \A i \in 1..Size(col) : res.col.data[i] = col.data[i]

C9_Witness ==
    /\ op.name = "FromArrow"
    /\ op.origin = "ConvertToArrow"
    /\ col.type = "STRING"
    /\ col.data = << <<"b", "c">>, <<"a">> >>
    /\ res.kind = "column"

\* The DataType the interop table gives an external type id.
C10_MappedType(type_id) ==
    CASE type_id = "BOOL" -> "BOOLEAN"
      [] type_id = "INT64" -> "INT64"
      [] type_id = "UINT128" -> "UINT128"
      [] type_id = "DOUBLE" -> "FLOAT64"
      [] type_id = "STRING" -> "STRING"
      [] type_id \in {"TIME64", "DURATION"} -> "TIME64NS"
      [] OTHER -> "none"

\* C10: FromArrow returns, for an array of each mapped type id (TIME64 and
\* DURATION both included), a Column of the mapped DataType with the array's
\* values, and aborts on every other type id.
C10_FromArrowMapsEveryTypeId ==
    op.name = "FromArrow" =>
        IF C10_MappedType(arr.type_id) = "none"
        THEN res.kind = "abort"
        ELSE /\ res.kind = "column"
             /\ res.col.type = C10_MappedType(arr.type_id)
             /\ Size(res.col) = arr.length
             /\ \A i \in 1..arr.length :
                   res.col.data[i] = IF arr.type_id = "STRING"
                                     THEN GetString(arr, i - 1)
                                     ELSE Value(arr, i - 1)

----------------------------------------------------------------------------
\* Properties of the typed Column operations.

\* C11: a checked Append<T>, AppendFromVector<T> or Get<T> on a Column whose
\* DataType is not T's dies on its CHECK and leaves the length and the
\* elements of the Column as they were; an Append<T>(v) of the Column's own
\* type makes the Column one element longer with v last and the rest as it
\* was, and a Get<T>(Size() - 1) right after it returns v.
C11_CheckedTypedOps ==
    /\ (op.name \in {"Append", "AppendFromVector", "Get"} /\ targ.T # op.pre.type)
          => (res.kind = "abort" /\ col = op.pre)
    /\ (op.name = "Append" /\ targ.T = op.pre.type)
          => /\ res.kind = "done"
             /\ Size(col) = Size(op.pre) + 1
             /\ col.data[Size(col)] = targ.vals[1]
             /\ SubSeq(col.data, 1, Size(op.pre)) = op.pre.data
    /\ (op.name = "Get" /\ op.origin = "Append" /\ targ.T = op.pre.type
          /\ targ.at = Size(col) - 1)
          => (res.kind = "done" /\ targ.out = <<targ.vals[1]>>)

C11_Witness ==
    /\ op.name = "Get"
    /\ op.origin = "Append"
    /\ col.type = "STRING"
    /\ targ.T = "STRING"
    /\ targ.at = Size(col) - 1
    /\ Size(col) = 2
    /\ targ.out = <<(<<"b", "c">>)>>

\* C11, the other case: a mismatched call has been made on a Column that
\* holds elements.
C11_WitnessMismatch ==
    /\ op.name = "AppendFromVector"
    /\ targ.T # op.pre.type
    /\ Len(targ.vals) = 1
    /\ Size(op.pre) = 1
    /\ res.kind = "abort"

\* C12: Make(type, size) returns a Column of that type and that size; after
\* any sequence of Append, Reserve, Clear, ShrinkToFit, Resize, CopyIndexes
\* and MoveIndexes the Column still has the type it was made with; and a
\* Column returned by CopyIndexes or MoveIndexes has the type of its source.
C12_TypeFixedAtConstruction ==
    /\ (op.name = "Make" /\ made.type \in DataTypes)
          => (res.kind = "column" /\ col.type = made.type /\ Size(col) = targ.at)
    /\ (made.type \in DataTypes) => col.type = made.type
    /\ (op.name \in {"CopyIndexes", "MoveIndexes"} /\ res.kind = "column")
          => (res.col.type = op.pre.type /\ res.col.type = col.type)

C12_Witness ==
    /\ made.type = "STRING"
    /\ Size(op.pre) = 2
    /\ op.name = "MoveIndexes"
    /\ op.origin = "none"
    /\ res.kind = "column"
    /\ Size(res.col) = 1
    /\ res.col.data[1] = <<"a">>

----------------------------------------------------------------------------
\* Properties of the metadata UDFs.

\* A reader of what the Writer put out: the characters of a JSON string that
\* starts after the opening quote at i, up to its closing quote.
RECURSIVE ReadChars(_, _, _)
ReadChars(s, i, acc) ==
    IF i > Len(s) THEN [ok |-> FALSE, val |-> <<>>, next |-> i]
    ELSE IF s[i] = "\"" THEN [ok |-> TRUE, val |-> acc, next |-> i + 1]
    ELSE IF s[i] = "\\"
         THEN IF i + 1 <= Len(s) /\ s[i + 1] \in {"\"", "\\"}
              THEN ReadChars(s, i + 2, Append(acc, s[i + 1]))
              ELSE [ok |-> FALSE, val |-> <<>>, next |-> i]
    ELSE ReadChars(s, i + 1, Append(acc, s[i]))

\* The strings of a JSON array from its first element at i on.
RECURSIVE ReadElements(_, _, _)
ReadElements(s, i, acc) ==
    IF i > Len(s) \/ s[i] # "\"" THEN [ok |-> FALSE, val |-> <<>>]
    ELSE LET r == ReadChars(s, i + 1, <<>>) IN
         IF ~r.ok \/ r.next > Len(s) THEN [ok |-> FALSE, val |-> <<>>]
         ELSE IF s[r.next] = "," THEN ReadElements(s, r.next + 1, Append(acc, r.val))
         ELSE IF s[r.next] = "]" /\ r.next = Len(s) THEN [ok |-> TRUE, val |-> Append(acc, r.val)]
         ELSE [ok |-> FALSE, val |-> <<>>]

\* The list of strings a JSON array of strings denotes.
ReadJsonArray(s) ==
    IF Len(s) < 2 \/ s[1] # "[" THEN [ok |-> FALSE, val |-> <<>>]
    ELSE IF s = <<"[", "]">> THEN [ok |-> TRUE, val |-> <<>>]
    ELSE ReadElements(s, 2, <<>>)

\* C13: StringifyVector returns the empty string for an empty list, the bare
\* element for a list of one, and for two or more elements a JSON array of
\* strings that holds exactly the elements of the list, in order.
C13_StringifyVector ==
    udf.name = "StringifyVector" =>
        LET vec == udf.arg IN
        /\ Len(vec) = 0 => ret = <<>>
        /\ Len(vec) = 1 => ret = vec[1]
        /\ Len(vec) >= 2 => (ReadJsonArray(ret).ok /\ ReadJsonArray(ret).val = vec)

C13_Witness ==
    /\ udf.name = "StringifyVector"
    /\ udf.arg = << <<"\"">>, <<"\\">>, <<",">> >>
    /\ ret = <<"[", "\"", "\\", "\"", "\"", ",", "\"", "\\", "\\", "\"", ",", "\"", ",", "\"", "]">>

\* The snapshot read directly: whether it holds a service as running, and
\* the pod a UPID's chain of process, container and pod ends at.
IsRunning(m, sid) == sid \in DOMAIN m.services /\ m.services[sid].stop_time_ns = 0
HasPid(m, u) == u \in DOMAIN m.pids
HasContainer(m, u) == HasPid(m, u) /\ m.pids[u].cid \in DOMAIN m.containers
HasPod(m, u) == HasContainer(m, u) /\ m.containers[m.pids[u].cid].pod_id \in DOMAIN m.pods
ChainPodId(m, u) == m.containers[m.pids[u].cid].pod_id

\* The number of separators in a name and, for a name with one separator,
\* the pair of what stands before and after it.
Separators(str) == Cardinality({ i \in 1..Len(str) : str[i] = "/" })
PairOf(str) ==
    LET at == CHOOSE i \in 1..Len(str) : str[i] = "/" IN
    <<SubSeq(str, 1, at - 1), SubSeq(str, at + 1, Len(str))>>

\* The id of the pod the last call resolved, <<>> when it found none.
ResolvedPodId ==
    CASE udf.name \in {"UPIDToServiceID", "UPIDToServiceName"} ->
            IF HasPod(md, udf.arg) THEN ChainPodId(md, udf.arg) ELSE <<>>
      [] udf.name \in PodIDUDFs -> IF udf.arg \in DOMAIN md.pods THEN udf.arg ELSE <<>>
      [] udf.name \in {"PodNameToServiceID", "PodNameToServiceName"} ->
            IF Separators(udf.arg) = 1 /\ PairOf(udf.arg) \in DOMAIN md.pods_by_name
            THEN md.pods_by_name[PairOf(udf.arg)] ELSE <<>>
      [] OTHER -> <<>>

\* The running services of a pod, in the order the pod lists them.
ExpectedIDs(m, pod_id) == SelectSeq(m.pods[pod_id].services, LAMBDA sid : IsRunning(m, sid))
ExpectedNames(m, pod_id) ==
    LET ids == ExpectedIDs(m, pod_id) IN
    [i \in 1..Len(ids) |-> m.services[ids[i]].ns \o <<"/">> \o m.services[ids[i]].name]

\* C14: for every snapshot and every pod found in it, each UDF that maps to
\* services formats exactly those services of the pod whose stop time is
\* zero, in the order the pod lists them: a stopped service never appears and
\* a running one is never left out.
C14_OnlyRunningServices ==
    (udf.name \in {"UPIDToServiceID", "PodIDToServiceID", "PodNameToServiceID"}
        /\ ResolvedPodId # <<>>
          => ret = StringifyVector(ExpectedIDs(md, ResolvedPodId)))
    /\ (udf.name \in {"UPIDToServiceName", "PodIDToServiceName", "PodNameToServiceName"}
        /\ ResolvedPodId # <<>>
          => ret = StringifyVector(ExpectedNames(md, ResolvedPodId)))

C14_Witness ==
    /\ udf.name = "UPIDToServiceID"
    /\ HasPod(md, udf.arg)
    /\ md.pods[ChainPodId(md, udf.arg)].services = << <<"t">>, <<"s">> >>
    /\ IsRunning(md, <<"s">>)
    /\ <<"t">> \in DOMAIN md.services
    /\ ~IsRunning(md, <<"t">>)
    /\ ret = <<"s">>

\* Whether the last call asked one of the three entry points for the pod P.
Designates(names, P) ==
    \/ udf.name = names[1] /\ HasPod(md, udf.arg) /\ ChainPodId(md, udf.arg) = P
    \/ udf.name = names[2] /\ udf.arg = P
    \/ udf.name = names[3] /\ udf.arg = md.pods[P].ns \o <<"/">> \o md.pods[P].name

\* What the three entry points return for the pod P, each taken once.
ByPodID(kind, P) ==
    IF kind = "name" THEN PodIDToServiceNameUDF(md, P) ELSE PodIDToServiceIDUDF(md, P)
ByPodName(kind, P) ==
    LET pod_name == md.pods[P].ns \o <<"/">> \o md.pods[P].name IN
    IF kind = "name" THEN PodNameToServiceNameUDF(md, pod_name).ret
    ELSE PodNameToServiceIDUDF(md, pod_name).ret
ByUPID(kind, P) ==
    { IF kind = "name" THEN UPIDToServiceNameUDF(md, u) ELSE UPIDToServiceIDUDF(md, u)
      : u \in { v \in UPIDs : HasPod(md, v) /\ ChainPodId(md, v) = P } }

AgreeOn(kind, names, P) ==
    Designates(names, P) =>
        /\ ret = ByPodID(kind, P)
        /\ ret = ByPodName(kind, P)
        /\ \A r \in ByUPID(kind, P) : ret = r

ServiceNameEntries == <<"UPIDToServiceName", "PodIDToServiceName", "PodNameToServiceName">>
ServiceIDEntries == <<"UPIDToServiceID", "PodIDToServiceID", "PodNameToServiceID">>

\* C15 as stated: for every snapshot and every pod P in it, the UPID, the pod
\* id and the qualified pod name of P give the same service names, and the
\* same service ids.
C15_EntryPointsAgree ==
    \A P \in DOMAIN md.pods :
        /\ AgreeOn("name", ServiceNameEntries, P)
        /\ AgreeOn("id", ServiceIDEntries, P)

\* C15, amended: the three entry points agree for every pod P that the name
\* index resolves the qualified name of P to.
C15_EntryPointsAgreeOnIndexedPod ==
    \A P \in DOMAIN md.pods :
        md.pods_by_name[QualifiedKey(md.pods[P])] = P =>
            /\ AgreeOn("name", ServiceNameEntries, P)
            /\ AgreeOn("id", ServiceIDEntries, P)

C15_Witness ==
    /\ udf.name = "PodNameToServiceName"
    /\ udf.arg = <<"n", "/", "b">>
    /\ HasPod(md, 9)
    /\ ChainPodId(md, 9) = <<"p">>
    /\ md.pods[<<"p">>].name = <<"b">>
    /\ ret = <<"[", "\"", "n", "/", "v", "\"", ",", "\"", "n", "/", "w", "\"", "]">>

\* C16: a UDF that consumes a name looks the pair (namespace, name) up exactly
\* when the name holds one separator, with what stands before and after it;
\* for a name with none or with two or more it returns the empty string, as
\* a result, and makes no lookup.
C16_MalformedNames ==
    udf.name \in NameUDFs =>
        /\ Separators(udf.arg) # 1 => (ret = <<>> /\ lookups = <<>>)
        /\ Separators(udf.arg) = 1 =>
              /\ Len(lookups) = 1
              /\ lookups[1].key = PairOf(udf.arg)
              /\ lookups[1].fn = (IF udf.name = "ServiceNameToServiceID"
                                  THEN "ServiceIDByName" ELSE "PodIDByName")

C16_Witness ==
    /\ udf.name = "PodNameToServiceName"
    /\ udf.arg = <<"a", "/", "b", "/", "c">>
    /\ <<"n", "/", "a">> \in NameArgs(md)
    /\ ret = <<>>
    /\ lookups = <<>>

\* C16, the other case: a well-formed name has been looked up.
C16_WitnessLookup ==
    /\ udf.name = "PodNameToPodID"
    /\ udf.arg = <<"n", "/", "a">>
    /\ lookups = << [fn |-> "PodIDByName", key |-> << <<"n">>, <<"a">> >>] >>
    /\ ret = <<"q">>

\* C17 as stated: every UDF from a UPID returns the empty string when the
\* UPID has no process info, or the process's container is missing, or the
\* container's pod is missing.
C17_AnyMissingLinkGivesEmpty ==
    (udf.name \in UPIDUDFs /\ ~HasPod(md, udf.arg)) => ret = <<>>

\* C17, amended: a UDF from a UPID returns the empty string when a link it
\* reads is missing: the container id needs the process info only and is
\* returned whenever that exists; the pod id needs the process info and the
\* container and is returned whenever they exist; pod name, namespace,
\* services, node name and hostname need the pod as well.
C17_MissingNeededLinkGivesEmpty ==
    udf.name \in UPIDUDFs =>
        /\ ~HasPid(md, udf.arg) => ret = <<>>
        /\ (udf.name # "UPIDToContainerID" /\ ~HasContainer(md, udf.arg)) => ret = <<>>
        /\ (udf.name \notin {"UPIDToContainerID", "UPIDToPodID"} /\ ~HasPod(md, udf.arg))
              => ret = <<>>
        /\ (udf.name = "UPIDToContainerID" /\ HasPid(md, udf.arg))
              => ret = md.pids[udf.arg].cid
        /\ (udf.name = "UPIDToPodID" /\ HasContainer(md, udf.arg))
              => ret = ChainPodId(md, udf.arg)

C17_Witness ==
    /\ udf.name = "UPIDToPodName"
    /\ HasContainer(md, udf.arg)
    /\ ~HasPod(md, udf.arg)
    /\ md.pods # <<>>
    /\ ret = <<>>

----------------------------------------------------------------------------
\* Properties of the UPID codec.

\* C18: UPIDToASID returns the high word shifted right by 32, the floor of
\* high / 2^32: its low 32 bits are the upper 32 bits of the high word and
\* its upper 32 bits are zero, so it lies in [0, 2^32) and neither the low
\* word nor the lower 32 bits of the high word have a part in it.
C18_ASIDIsUpperHalfOfHighWord ==
    (decoded # <<>> /\ decoded.udf = "UPIDToASID") =>
        LET v == upid_uint128[decoded.of] IN
        /\ Len(decoded.val) = WordBits
        /\ \A i \in 1..HalfBits :
              decoded.val[i] = 0 /\ decoded.val[HalfBits + i] = v.high[i]

C18_Witness ==
    /\ decoded # <<>>
    /\ decoded.udf = "UPIDToASID"
    /\ upid_layout = "none"
    /\ upid_uint128[1].high = Ones(WordBits)
    /\ upid_uint128[1].low = Ones(WordBits)
    /\ decoded.val = Zeros(HalfBits) \o Ones(HalfBits)

\* C19: a UPID encoded from (asid, pid, start) decodes to that triple, also
\* at asid = 0, asid = 2^32 - 1, pid = 0 and start = 0; UPIDToASID and
\* UPIDToPID of it are the asid and the pid; and two different triples never
\* have the same UPID or the same UPID string.
C19_UPIDRoundTrip ==
    decoded # <<>> =>
        /\ decoded.udf = "Decode" => decoded.val = triple[decoded.of]
        /\ decoded.udf = "UPIDToASID" => decoded.val = Zeros(HalfBits) \o triple[decoded.of].asid
        /\ decoded.udf = "UPIDToPID" => decoded.val = Zeros(HalfBits) \o triple[decoded.of].pid
        /\ triple[1] # triple[2] => upid_uint128[1] # upid_uint128[2]
        /\ (decoded.udf = "UPIDToString" /\ triple[1] # triple[2])
              => decoded.val[1] # decoded.val[2]

C19_Witness ==
    /\ decoded # <<>>
    /\ decoded.udf = "UPIDToString"
    /\ upid_layout = "pid_in_high"
    /\ triple[1] = [asid |-> Ones(HalfBits), pid |-> Zeros(HalfBits), start |-> Zeros(WordBits)]
    /\ triple[2].start = Ones(WordBits)
    /\ decoded.val[1] = <<"4", "2", "9", "4", "9", "6", "7", "2", "9", "5", ":", "0", ":", "0">>

----------------------------------------------------------------------------
\* Properties of the CSV ingestion.

\* The decimal text of a value below 2^31, and the text a stored value is
\* written as in a file.
RECURSIVE DecimalOfInt(_)
DecimalOfInt(v) ==
    IF v < 10 THEN <<DigitChars[v + 1]>>
    ELSE DecimalOfInt(v \div 10) \o <<DigitChars[(v % 10) + 1]>>
Written(type, v) ==
    CASE type \in {"INT64", "TIME64NS"} -> DecimalOfInt(v)
      [] type = "BOOLEAN" -> (IF v THEN <<"t", "r", "u", "e">> ELSE <<"f", "a", "l", "s", "e">>)
      [] type = "STRING" -> v

\* The rows of the stored batches, as text, batch after batch.
RECURSIVE StoredRows(_, _)
StoredRows(types, batches) ==
    IF batches = <<>> THEN <<>>
    ELSE LET b == Head(batches) IN
         [j \in 1..Len(b[1].data) |-> [c \in 1..Len(types) |-> Written(types[c], b[c].data[j])]]
             \o StoredRows(types, Tail(batches))

\* What C20 says of an ingestion that is over.
BatchedAsClaimed ==
    LET n == Len(csv_file.rows)
        r == csv_file.rb_size
        k == (n + r - 1) \div r
    IN /\ Len(csv_table) = k
       /\ \A i \in 1..Len(csv_table) :
            /\ \A c \in 1..Len(csv_table[i]) :
                 Len(csv_table[i][c].data) = Len(csv_table[i][1].data)
            /\ Len(csv_table[i][1].data) > 0
            /\ i < k => Len(csv_table[i][1].data) = r
            /\ i = k => Len(csv_table[i][1].data) = n - r * (k - 1)
       /\ StoredRows(csv_file.types, csv_table) = csv_file.rows

\* C20: an ingestion with batch size r >= 1 over n >= 1 well-formed data rows
\* transfers exactly ceil(n / r) batches in file order: every batch but the
\* last has r rows, the last has n - r * (ceil(n / r) - 1), the columns of a
\* batch have one length, the batches together are the data rows in order,
\* and no batch without rows is transferred.
C20_BatchesOfFixedSize ==
    (csv_pc \in {"done", "terminated"} /\ Len(csv_file.rows) >= 1) => BatchedAsClaimed

\* The same for the files whose integers all fit an int.
FitsInt(field) == Stoi(field).ok
AllFitInt ==
    \A i \in 1..Len(csv_file.rows) : \A c \in 1..Len(csv_file.types) :
        csv_file.types[c] \in {"INT64", "TIME64NS"} => FitsInt(csv_file.rows[i][c])
C20_BatchesOfFixedSizeWithinInt ==
    (csv_pc \in {"done", "terminated"} /\ Len(csv_file.rows) >= 1 /\ AllFitInt)
        => (csv_pc = "done" /\ BatchedAsClaimed)

C20_WitnessWithinInt ==
    /\ csv_pc = "done"
    /\ Len(csv_file.rows) = 3
    /\ csv_file.rb_size = 2
    /\ Len(csv_file.types) = 2
    /\ Len(csv_table) = 2
    /\ Len(csv_table[2][1].data) = 1

----------------------------------------------------------------------------
\* Properties of the header of the CSV file.

\* The six DataType names and the DataType of each.
DataTypeOfName ==
    [name \in {"boolean", "int64", "uint128", "float64", "string", "time64ns"} |->
        CASE name = "boolean" -> "BOOLEAN"
          [] name = "int64" -> "INT64"
          [] name = "uint128" -> "UINT128"
          [] name = "float64" -> "FLOAT64"
          [] name = "string" -> "STRING"
          [] name = "time64ns" -> "TIME64NS"]

\* C21: the header-type parser returns the DataType of each of the six
\* DataType names (boolean, int64, uint128, float64, string, time64ns), and
\* for any other header string it returns an InvalidArgument failure with a
\* message, which the caller can recover from: the process does not end.
C21_HeaderTypeParser ==
    hdr_got # <<>> =>
        IF hdr_got.type \in DOMAIN DataTypeOfName
        THEN hdr_got.ret.ok /\ hdr_got.ret.val = DataTypeOfName[hdr_got.type]
        ELSE /\ ~hdr_got.ret.ok
             /\ hdr_got.ret.code = "InvalidArgument"
             /\ hdr_got.ret.msg # ""
             /\ hdr_pc # "terminated"

\* The same without uint128, and without the recovery of the caller.
C21_HeaderTypeParserOfFiveNames ==
    hdr_got # <<>> =>
        IF hdr_got.type \in DOMAIN DataTypeOfName \ {"uint128"}
        THEN hdr_got.ret.ok /\ hdr_got.ret.val = DataTypeOfName[hdr_got.type]
             /\ hdr_types[Len(hdr_types)] = hdr_got.ret.val
        ELSE /\ ~hdr_got.ret.ok
             /\ hdr_got.ret.code = "InvalidArgument"
             /\ hdr_got.ret.msg # ""
             /\ hdr_pc = "terminated"

----------------------------------------------------------------------------
\* Properties of SemVer.

\* A version number: three non-empty runs of decimal digits with a dot
\* between them, and the strings that contain one.
DecimalDigits == {"0", "1", "2", "3", "4", "5", "6", "7", "8", "9"}
AllDigits(s) == s # <<>> /\ \A i \in 1..Len(s) : s[i] \in DecimalDigits
DotsOf(s) ==
    { d \in (1..Len(s)) \X (1..Len(s)) :
        /\ d[1] < d[2] /\ s[d[1]] = "." /\ s[d[2]] = "."
        /\ AllDigits(SubSeq(s, 1, d[1] - 1))
        /\ AllDigits(SubSeq(s, d[1] + 1, d[2] - 1))
        /\ AllDigits(SubSeq(s, d[2] + 1, Len(s))) }
IsVersionNumber(s) == DotsOf(s) # {}
VersionNumbersIn(s) ==
    { r \in (1..Len(s)) \X (1..Len(s)) : r[1] <= r[2] /\ IsVersionNumber(SubSeq(s, r[1], r[2])) }
ContainsVersionNumber(s) == VersionNumbersIn(s) # {}

\* C22: GetSemVer returns an InvalidArgument failure and no SemVer for every
\* string that contains no <digits>.<digits>.<digits> version number, and it
\* returns a SemVer only together with no error.
C22_GetSemVerRejectsNonVersions ==
    sem_ver # <<>> =>
        /\ ~ContainsVersionNumber(version) =>
             ~sem_ver.ok /\ sem_ver.code = "InvalidArgument" /\ sem_ver.msg # ""
        /\ ~sem_ver.ok => sem_ver.val = "none"
        /\ sem_ver.ok =>
             /\ sem_ver.code = "OK"
             /\ DOMAIN sem_ver.val = {"major", "minor", "patch"}
             /\ \A f \in DOMAIN sem_ver.val : sem_ver.val[f] \in Nat

C22_Witness ==
    /\ sem_ver # <<>>
    /\ version = <<"1", ".", "2">>
    /\ ~sem_ver.ok
    /\ sem_ver.code = "InvalidArgument"

C22_WitnessEmpty == sem_ver # <<>> /\ version = <<>> /\ ~sem_ver.ok

\* The first version number of a string that contains one: of those that
\* start leftmost, the longest; and its three fields.
FirstVersionNumber(s) ==
    LET r == CHOOSE r \in VersionNumbersIn(s) :
                 \A q \in VersionNumbersIn(s) :
                     r[1] < q[1] \/ (r[1] = q[1] /\ r[2] >= q[2])
    IN SubSeq(s, r[1], r[2])
FieldsOf(v) ==
    LET d == CHOOSE d \in DotsOf(v) : TRUE
    IN <<SubSeq(v, 1, d[1] - 1), SubSeq(v, d[1] + 1, d[2] - 1), SubSeq(v, d[2] + 1, Len(v))>>

\* C23: for all non-negative integers M, m and p, of any number of digits,
\* GetSemVer of a string whose first version number is "M.m.p" returns the
\* SemVer with major = M, minor = m and patch = p.
C23_GetSemVerReturnsTheFields ==
    (sem_ver # <<>> /\ ContainsVersionNumber(version)) =>
        LET f == FieldsOf(FirstVersionNumber(version)) IN
        /\ sem_ver.ok
        /\ DecimalOfInt(sem_ver.val.major) = f[1]
        /\ DecimalOfInt(sem_ver.val.minor) = f[2]
        /\ DecimalOfInt(sem_ver.val.patch) = f[3]

\* The same for the strings whose first version number has a patch of one
\* digit and fields no longer than nine digits.
C23_GetSemVerReturnsTheFieldsOfShortVersions ==
    (sem_ver # <<>> /\ ContainsVersionNumber(version)) =>
        LET f == FieldsOf(FirstVersionNumber(version)) IN
        (Len(f[1]) <= 9 /\ Len(f[2]) <= 9 /\ Len(f[3]) = 1) =>
            /\ sem_ver.ok
            /\ DecimalOfInt(sem_ver.val.major) = f[1]
            /\ DecimalOfInt(sem_ver.val.minor) = f[2]
            /\ DecimalOfInt(sem_ver.val.patch) = f[3]

\* A patch of two digits, of which GetSemVer returns the first.
C23_WitnessPatchCut ==
    /\ sem_ver # <<>>
    /\ version = <<"1", ".", "2", ".", "1", "2">>
    /\ sem_ver.ok
    /\ sem_ver.val = SemVer(1, 2, 1)

\* C24: the ingestion of a file with the two header rows and no data row
\* completes normally and yields a Table without batches: the final flush
\* looks into the batch in progress only when there is one, and transfers
\* nothing otherwise.
C24_NoDataRowsGivesEmptyTable ==
    (csv_pc # "idle" /\ Len(csv_file.rows) = 0) =>
        /\ csv_pc # "terminated"
        /\ csv_pc = "done" => csv_table = <<>>

\* With a data row there is a batch for the final flush to look into, and the
\* flush itself does not end the process.
C24_FlushAfterADataRow ==
    [][(csv_pc = "rows" /\ csv_pc' = "terminated" /\ row_idx' = Len(csv_file.rows))
          => Len(csv_file.rows) = 0]_vars

\* The lexicographic order on (major, minor, patch).
Lexicographic(x, y) ==
    \/ x.major < y.major
    \/ x.major = y.major /\ x.minor < y.minor
    \/ x.major = y.major /\ x.minor = y.minor /\ x.patch < y.patch
ExactlyOne(a, b, c) == (a /\ ~b /\ ~c) \/ (~a /\ b /\ ~c) \/ (~a /\ ~b /\ c)

\* C25: operator< on SemVer is the lexicographic order on (major, minor,
\* patch) and a strict total order: for all x, y and z, not x < x; x < y and
\* y < z imply x < z; and exactly one of x < y, y < x and x equal to y in
\* all three fields holds.
C25_LessIsStrictTotalOrder ==
    less # <<>> =>
        /\ \A i, j \in 1..3 : less[i][j] = Lexicographic(operands[i], operands[j])
        /\ \A i \in 1..3 : ~less[i][i]
        /\ (less[1][2] /\ less[2][3]) => less[1][3]
        /\ ExactlyOne(less[1][2], less[2][1], operands[1] = operands[2])

C25_Witness ==
    /\ less # <<>>
    /\ operands[1].major = operands[2].major
    /\ operands[1].minor = operands[2].minor
    /\ operands[1].patch < operands[2].patch
    /\ less[1][2]
    /\ less[2][3]
    /\ less[1][3]

============================================================================
